---- MODULE Spec2Model ----
(***************************************************************************)
(* Conversation orchestration of viki.ai: the chat endpoints of            *)
(* app/apis/chat.py and the inference helpers of app/utils/inference.py.   *)
(*                                                                         *)
(* The chat_messages table is the sequence db, in insertion order; every   *)
(* row carries its creation_dt.  Each endpoint is one action; what it did  *)
(* (rows written, tool runs, model calls, in program order) is recorded in *)
(* lastOp, with the message list a resolve handed to the model; toolCalls  *)
(* and resolved are the histories of tool runs and of tool_response rows   *)
(* written by the approval endpoint.                                       *)
(* The model provider, the tool server and the agent/LLM configuration     *)
(* rows are the environment: their outcome is an input of each call.       *)
(***************************************************************************)
EXTENDS Integers, Sequences, FiniteSets, TLC

\* ---------------------------------------------------------------- bounds
MaxCalls == 3       \* endpoint calls handled in one run
MaxClock == 1       \* the clock runs from 0 to MaxClock

SessionIds == {"s1", "s2"}
SessionOrder == <<"s1", "s2">>
SubmitText == "q1"
EditText == "q2"
AnswerText == "answer"
ToolName == "calculator"
ToolOutput == "4"

\* Parameter dictionaries, and None for the absent value
None == "None"
EmptyDict == "dict()"
ProposedArgs == "dict(a=1)"
ModifiedDicts == {EmptyDict, "dict(a=2)"}
RejectionReasons == {"", "not needed"}

Roles == {"system", "user", "assistant", "tool_input", "tool_response"}

VARIABLES
    sessions,   \* chat_sessions: session id -> "none" | "live" | "deleted"
    db,         \* chat_messages rows in insertion order
    nextId,     \* next uuid to hand out
    clock,      \* datetime.utcnow()
    toolCalls,  \* every invocation that reached the tool server
    resolved,   \* every tool_response written by approve_tool_call
    lastOp,     \* the last endpoint call and its effects, in program order
    calls,      \* number of endpoint calls handled
    procs,      \* tool-server callers: process id -> its position and data
    semaphore,  \* value of mcpTool.CONNECTION_SEMAPHORE
    environ,    \* os.environ, the proxy variables of the process
    llm_calls,  \* model calls in flight: call id -> its position and data
    classified, \* a message handed to the role classifier, and its result
    tool_run,   \* one call of process_tool_call_approval, and its result
    error_seen, \* an exception handed to the error classifier, and its result
    history,    \* the last history load: the session and the rows returned
    text_call   \* one text handled by a text function, and what came of it

chatVars == <<sessions, db, nextId, clock, toolCalls, resolved, lastOp, calls>>

connVars == <<procs, semaphore>>

proxyVars == <<environ, llm_calls>>

pureVars == <<classified, tool_run, error_seen, text_call>>

vars == <<sessions, db, nextId, clock, toolCalls, resolved, lastOp, calls,
          procs, semaphore, environ, llm_calls, classified, tool_run,
          error_seen, history, text_call>>

\* ------------------------------------------------------------ sequences
Range(s) == {s[i] : i \in 1..Len(s)}

Last(s) == s[Len(s)]

\* ---------------------------------------------------------------- JSON
\* json.dumps of a parameter dict
json_dumps(d) ==
    CASE d = EmptyDict -> "{}"
      [] d = "dict(a=1)" -> "{\"a\": 1}"
      [] d = "dict(a=2)" -> "{\"a\": 2}"
      [] OTHER -> "null"

\* json.loads of an arguments string, with the fallback dict
\* {"arguments": <string>} that the callers build on JSONDecodeError
json_loads(s) ==
    CASE s = "{}" -> EmptyDict
      [] s = "{\"a\": 1}" -> "dict(a=1)"
      [] s = "{\"a\": 2}" -> "dict(a=2)"
      [] OTHER -> "dict(arguments=...)"

\* -------------------------------------------------------------- rows
\* ChatMessage(msg_id, msg_cht_id, msg_role, msg_content), creation_dt
\* defaulting to datetime.utcnow at insert.  Text is a sequence of pieces.
ChatMessage(id, s, role, content, dt) ==
    [msg_id |-> id, msg_cht_id |-> s, msg_role |-> role,
     msg_content |-> content, creation_dt |-> dt]

\* db.query(ChatMessage).filter(msg_cht_id == s).order_by(creation_dt):
\* creation_dt never decreases along db, so insertion order is a
\* creation_dt order
SessionMessages(rows, s) == SelectSeq(rows, LAMBDA r : r.msg_cht_id = s)

RolesOf(rows) == [i \in 1..Len(rows) |-> rows[i].msg_role]

\* ------------------------------------------------------------- effects
Eff(kind, id) == [kind |-> kind, id |-> id]

NoOp == [op |-> "init", sess |-> "", msg |-> 0, action |-> "", arg |-> "",
         status |-> "ok", effects |-> <<>>, handed |-> <<>>]

\* ------------------------------------------------- LangChain messages
\* HumanMessage / AIMessage / SystemMessage / ToolMessage.  id 0 is None.
LcMessage(type, content, tool_calls) ==
    [type |-> type, blocks |-> FALSE, content |-> content,
     tool_calls |-> tool_calls, id |-> 0]

\* The history handed to the model: one LangChain message per stored row
LangchainOf(r) ==
    CASE r.msg_role = "user" -> LcMessage("HumanMessage", r.msg_content, <<>>)
      [] r.msg_role = "assistant" -> LcMessage("AIMessage", r.msg_content, <<>>)
      [] r.msg_role = "system" -> LcMessage("SystemMessage", r.msg_content, <<>>)
      [] r.msg_role = "tool_input" -> LcMessage("AIMessage", r.msg_content, <<>>)
      [] OTHER -> LcMessage("ToolMessage", r.msg_content, <<>>)

langchain_messages(rows, s) ==
    LET all_messages == SessionMessages(rows, s)
    IN  [i \in 1..Len(all_messages) |-> LangchainOf(all_messages[i])]

\* The messages state of the agent graph gives every message an id; the
\* objects of the input list are the caller's objects, so a message of the
\* caller's list is found again under the id of its position.
WithIds(messages) ==
    [i \in 1..Len(messages) |-> [messages[i] EXCEPT !.id = i]]

\* ------------------------------------------------------ Model Invoker
\* What the provider does with one call.
\*   config_error  configure_llm raises ValueError
\*   fail          the provider call (or tool discovery) raises
\*   text / tool / both / empty : the AIMessage the model returns
ModelOutcomes == {"config_error", "fail", "text", "tool", "both", "empty"}

AIMessageOf(outcome) ==
    [type |-> "AIMessage",
     blocks |-> FALSE,
     content |-> IF outcome \in {"text", "both"} THEN <<AnswerText>> ELSE <<>>,
     tool_calls |-> IF outcome \in {"tool", "both"}
                    THEN <<[name |-> ToolName,
                            arguments |-> json_dumps(ProposedArgs)]>>
                    ELSE <<>>,
     id |-> -1]

\* An agent graph built without interrupt_before: the tools node runs the
\* tool calls of the AIMessage
generate_llm_response_without_interrupt(mcp_servers, messages, outcome) ==
    IF outcome = "config_error"
    THEN [kind |-> "raise", messages |-> <<>>, executed |-> <<>>]
    ELSE IF outcome = "fail"
    THEN [kind |-> "none", messages |-> <<>>, executed |-> <<>>]
    ELSE IF mcp_servers
    THEN [kind |-> "agent",
          messages |-> Append(WithIds(messages), AIMessageOf(outcome)),
          executed |-> AIMessageOf(outcome).tool_calls]
    ELSE [kind |-> "single", messages |-> <<AIMessageOf(outcome)>>,
          executed |-> <<>>]

\* A generate_llm_response that hands back the text received so far when
\* the provider call breaks off
generate_llm_response_with_partial_message(mcp_servers, messages, outcome) ==
    IF outcome = "config_error"
    THEN [kind |-> "raise", messages |-> <<>>, executed |-> <<>>]
    ELSE IF outcome = "fail"
    THEN [kind |-> "single", messages |-> <<AIMessageOf("text")>>,
          executed |-> <<>>]
    ELSE IF mcp_servers
    THEN [kind |-> "agent",
          messages |-> Append(WithIds(messages), AIMessageOf(outcome)),
          executed |-> <<>>]
    ELSE [kind |-> "single", messages |-> <<AIMessageOf(outcome)>>,
          executed |-> <<>>]

\* generate_llm_response: "raise" leaves the function as an exception,
\* "none" is the None it returns after catching one.  The agent graph is
\* built with interrupt_before=["tools"]: it ends after the model node, so
\* the tool calls of the AIMessage are returned and none is executed.
\* executed lists the tool calls the graph ran.
generate_llm_response(mcp_servers, messages, outcome) ==
    IF outcome = "config_error"
    THEN [kind |-> "raise", messages |-> <<>>, executed |-> <<>>]
    ELSE IF outcome = "fail"
    THEN [kind |-> "none", messages |-> <<>>, executed |-> <<>>]
    ELSE IF mcp_servers
    THEN [kind |-> "agent",
          messages |-> Append(WithIds(messages), AIMessageOf(outcome)),
          executed |-> <<>>]
    ELSE [kind |-> "single", messages |-> <<AIMessageOf(outcome)>>,
          executed |-> <<>>]

\* updated_messages of continue_conversation_after_tool: a copy of the
\* caller's list with ToolMessage(content=tool_result) appended
updated_messages(messages, tool_result) ==
    Append(messages, LcMessage("ToolMessage", tool_result, <<>>))

\* A continuation whose agent graph goes on into its tools node
continue_conversation_after_tool_running_tools(mcp_servers, messages, tool_result, outcome) ==
    LET response == generate_llm_response_without_interrupt(mcp_servers,
                        updated_messages(messages, tool_result), outcome)
    IN  IF response.kind = "raise"
        THEN [kind |-> "none", messages |-> <<>>, executed |-> <<>>]
        ELSE response

\* continue_conversation_after_tool: appends the tool result to a copy of
\* the history and calls generate_llm_response; any exception becomes None
continue_conversation_after_tool(mcp_servers, messages, tool_result, outcome) ==
    LET response == generate_llm_response(mcp_servers,
                        updated_messages(messages, tool_result), outcome)
    IN  IF response.kind = "raise"
        THEN [kind |-> "none", messages |-> <<>>, executed |-> <<>>]
        ELSE response

\* messages_to_persist: the messages of the response whose id is not the
\* id of a message of the caller's list
messages_to_persist(response, orig) ==
    IF response.kind = "agent"
    THEN SelectSeq(response.messages,
                   LAMBDA m : ~ \E i \in 1..Len(orig) : i = m.id)
    ELSE IF response.kind = "single" THEN response.messages
    ELSE <<>>

\* ---------------------------------------------------- Role Classifier
ToolInputContent(tool_name, tool_arguments) ==
    <<"Tool: ", tool_name, ", Arguments: ", tool_arguments>>

\* str(item) of one block of a content list
BlockText(item) ==
    IF item.type = "text" THEN <<item.text>>
    ELSE IF item.type = "tool_use"
    THEN <<"[Tool Call: ", item.name, " with input: ", item.input, "]">>
    ELSE <<"str(item)">>

RECURSIVE JoinBlocks(_)
JoinBlocks(items) ==
    IF Len(items) = 1 THEN BlockText(items[1])
    ELSE BlockText(items[1]) \o <<" ">> \o JoinBlocks(Tail(items))

\* extract_message_content: string content as it is, a list of content
\* blocks joined with blanks, an empty list as str([])
extract_message_content(msg) ==
    IF ~ msg.blocks THEN msg.content
    ELSE IF msg.content = <<>> THEN <<"[]">>
    ELSE JoinBlocks(msg.content)

ClassifyAI(msg) ==
    IF msg.content = <<>> /\ msg.tool_calls # <<>>
    THEN [role |-> "tool_input",
          content |-> ToolInputContent(msg.tool_calls[1].name,
                                       msg.tool_calls[1].arguments)]
    ELSE [role |-> "assistant", content |-> extract_message_content(msg)]

\* create_chat_session_with_message, create_chat_message, update_chat_message
ClassifyTurn(msg) ==
    CASE msg.type = "AIMessage" -> ClassifyAI(msg)
      [] msg.type = "HumanMessage" -> [role |-> "user", content |-> extract_message_content(msg)]
      [] msg.type = "SystemMessage" -> [role |-> "system", content |-> extract_message_content(msg)]
      [] msg.type = "ToolMessage" -> [role |-> "tool_response", content |-> extract_message_content(msg)]
      [] OTHER -> [role |-> "assistant", content |-> extract_message_content(msg)]

\* approve_tool_call: everything that is not an AIMessage is an assistant
ClassifyContinuation(msg) ==
    IF msg.type = "AIMessage" THEN ClassifyAI(msg)
    ELSE [role |-> "assistant", content |-> extract_message_content(msg)]

\* The classifier of the endpoint that persists the message
Classify(endpoint, msg) ==
    IF endpoint = "approve_tool_call" THEN ClassifyContinuation(msg)
    ELSE ClassifyTurn(msg)

\* One row per message to persist, ids first, first+1, ...
PersistAll(msgs, endpoint, s, first, dt) ==
    [i \in 1..Len(msgs) |->
        ChatMessage(first + i - 1, s, Classify(endpoint, msgs[i]).role,
                    Classify(endpoint, msgs[i]).content, dt)]

InsertEffects(rows) == [i \in 1..Len(rows) |-> Eff("insert", rows[i].msg_id)]

\* --------------------------------------------------- Error Classifier
\* An exception: its class, the HTTP status it carries (0: none) and the
\* marker texts found in str(error).  One marker stands for each group of
\* texts the classifier looks for: "413" for "413" / "Request Entity Too
\* Large", "429" for "429" / "Too Many Requests", "401" for "401" / "403" /
\* "unauthorized" / "forbidden", "connection" for "connection" / "network" /
\* "timeout" / "unreachable", "TPM" for "TPM" / "tokens per minute",
\* "model" for "model" / "llm" / "inference" / "generation".
Error(cls, st, marks) == [cls |-> cls, status |-> st, marks |-> marks]

\* The text of the assistant message, <<>> when None is returned
error_content(error) ==
    IF error.cls = "HTTPStatusError"
    THEN CASE error.status = 413 -> <<"request too large">>
           [] error.status = 429 -> <<"too many requests">>
           [] error.status \in {401, 403} -> <<"authentication issue">>
           [] error.status >= 500 -> <<"service unavailable">>
           [] OTHER -> <<>>
    ELSE IF error.cls \in {"RequestError", "TimeoutException"}
    THEN <<"trouble connecting">>
    ELSE IF {"rate_limit_exceeded", "Request too large"} \cap error.marks # {}
    THEN IF "TPM" \in error.marks THEN <<"rate limit error">> ELSE <<>>
    ELSE IF "413" \in error.marks THEN <<"request too large">>
    ELSE IF "429" \in error.marks THEN <<"too many requests">>
    ELSE IF "401" \in error.marks THEN <<"authentication issue">>
    ELSE IF "connection" \in error.marks THEN <<"trouble connecting">>
    ELSE IF {"Event loop is closed", "RuntimeError"} \cap error.marks # {}
    THEN <<>>
    ELSE IF "model" \in error.marks THEN <<"issue while generating">>
    ELSE <<"unexpected error">>

\* The rows create_error_assistant_message adds
create_error_assistant_message(error, s, id, dt) ==
    IF error_content(error) # <<>>
    THEN <<ChatMessage(id, s, "assistant", error_content(error), dt)>>
    ELSE <<>>

\* The ValueError of configure_llm: "Unsupported LLM provider: ..."
ConfigErrors == {Error("ValueError", 0, {"model"})}

NoError == Error("", 0, {})

\* ------------------------------------------------------ Tool Connector
\* What the tool server does with one execution: the tool runs and returns,
\* the tool runs and raises, no tool of that name is offered, or the server
\* cannot be connected to
ToolOutcomes == {"ok", "toolerror", "notfound", "unreachable"}

\* The same, and asyncio.run itself raising before the coroutine runs
ToolFaults == ToolOutcomes \cup {"setup"}

\* A result dict {success, result, error}; error <<>> is None.  raised
\* tells that the function left by an exception instead of returning;
\* connected and invoked tell whether the server was connected to and
\* whether the tool was invoked
ToolResult(success, result, error, connected, invoked) ==
    [raised |-> FALSE, success |-> success, result |-> result, error |-> error,
     connected |-> connected, invoked |-> invoked]

Raised(text) ==
    [raised |-> TRUE, success |-> FALSE, result |-> <<>>, error |-> text,
     connected |-> FALSE, invoked |-> FALSE]

\* The coroutine execute_tool of execute_mcp_tool, with its own try/except
execute_tool(tool_name, parameters, tout) ==
    CASE tout = "unreachable" ->
            ToolResult(FALSE, <<"Error executing tool '", tool_name, "': ", "connect">>,
                       <<"Error executing tool '", tool_name, "': ", "connect">>,
                       FALSE, FALSE)
      [] tout = "notfound" ->
            ToolResult(FALSE, <<"Tool '", tool_name, "' not found">>,
                       <<"Tool '", tool_name, "' not found", ". Available tools: []">>,
                       TRUE, FALSE)
      [] tout = "toolerror" ->
            ToolResult(FALSE, <<"Error executing tool '", tool_name, "': ", "tool">>,
                       <<"Error executing tool '", tool_name, "': ", "tool">>,
                       TRUE, TRUE)
      [] OTHER -> ToolResult(TRUE, <<ToolOutput>>, <<>>, TRUE, TRUE)

\* An execute_mcp_tool whose outer try has no except clause
execute_mcp_tool_without_outer_except(tool_name, parameters, mcp_servers, tout) ==
    IF ~ mcp_servers
    THEN ToolResult(FALSE, <<"No MCP servers configured">>,
                    <<"No MCP servers available for tool execution">>,
                    FALSE, FALSE)
    ELSE IF tout = "setup"
    THEN Raised(<<"asyncio.run() cannot be called from a running event loop">>)
    ELSE execute_tool(tool_name, parameters, tout)

\* execute_mcp_tool: every exception of asyncio.run(execute_tool()) is
\* turned into a result dict by the outer except
execute_mcp_tool(tool_name, parameters, mcp_servers, tout) ==
    IF ~ mcp_servers
    THEN ToolResult(FALSE, <<"No MCP servers configured">>,
                    <<"No MCP servers available for tool execution">>,
                    FALSE, FALSE)
    ELSE IF tout = "setup"
    THEN ToolResult(FALSE, <<"Error setting up tool execution: ", "asyncio.run">>,
                    <<"Error setting up tool execution: ", "asyncio.run">>,
                    FALSE, FALSE)
    ELSE execute_tool(tool_name, parameters, tout)

\* A dict or string that Python takes as true
Truthy(d) == d # None /\ d # EmptyDict

\* A process_tool_call_approval that loses the parameters it is given
process_tool_call_approval_without_parameters(tool_name, tool_parameters, action, mcp_servers, modified_parameters, rejection_reason, tout) ==
    IF action = "reject"
    THEN ToolResult(TRUE,
             <<"Tool call rejected: ",
               IF rejection_reason # "" THEN rejection_reason
               ELSE "Tool call was rejected by user">>,
             <<>>, FALSE, FALSE) @@ [parameters |-> tool_parameters]
    ELSE LET final_parameters ==
                 IF action = "modify" /\ Truthy(modified_parameters)
                 THEN modified_parameters ELSE EmptyDict
             execution_result ==
                 execute_mcp_tool(tool_name, final_parameters, mcp_servers, tout)
         IN  execution_result @@ [parameters |-> final_parameters]

\* process_tool_call_approval: reject returns without touching the tool;
\* approve and modify run it; any other action, and any exception, become
\* a result dict with success False
process_tool_call_approval(tool_name, tool_parameters, action, mcp_servers, modified_parameters, rejection_reason, tout) ==
    IF action = "reject"
    THEN ToolResult(TRUE,
             <<"Tool call rejected: ",
               IF rejection_reason # "" THEN rejection_reason
               ELSE "Tool call was rejected by user">>,
             <<>>, FALSE, FALSE) @@ [parameters |-> tool_parameters]
    ELSE IF action \in {"approve", "modify"}
    THEN LET final_parameters ==
                 IF action = "modify" /\ Truthy(modified_parameters)
                 THEN modified_parameters ELSE tool_parameters
             execution_result ==
                 execute_mcp_tool(tool_name, final_parameters, mcp_servers, tout)
         IN  IF execution_result.raised
             THEN ToolResult(FALSE,
                      <<"Error processing tool call approval: ">>
                          \o execution_result.error,
                      <<"Error processing tool call approval: ">>
                          \o execution_result.error,
                      FALSE, FALSE) @@ [parameters |-> tool_parameters]
             ELSE execution_result @@ [parameters |-> final_parameters]
    ELSE ToolResult(FALSE, <<"Invalid action: ", action>>,
                    <<"Invalid action: ", action>>, FALSE, FALSE)
             @@ [parameters |-> tool_parameters]

\* ------------------------------------------------------------ queries
HasMessage(rows, s, id) ==
    \E i \in 1..Len(rows) : rows[i].msg_id = id /\ rows[i].msg_cht_id = s

MessageAt(rows, id) == rows[CHOOSE i \in 1..Len(rows) : rows[i].msg_id = id]

SetContent(rows, id, content) ==
    [i \in 1..Len(rows) |->
        IF rows[i].msg_id = id THEN [rows[i] EXCEPT !.msg_content = content]
        ELSE rows[i]]

\* ---------------------------------------------------------------- Init
\* The chat tables after the migrations have run
ChatInit ==
    /\ sessions = [s \in SessionIds |-> "none"]
    /\ db = <<>>
    /\ nextId = 1
    /\ clock = 0
    /\ toolCalls = <<>>
    /\ resolved = <<>>
    /\ lastOp = NoOp
    /\ calls = 0

\* One more endpoint call is handled
Handled == calls < MaxCalls /\ calls' = calls + 1

\* Time passes between two calls
Tick ==
    /\ clock < MaxClock
    /\ clock' = clock + 1
    /\ UNCHANGED <<sessions, db, nextId, toolCalls, resolved, lastOp, calls>>
    /\ UNCHANGED <<connVars, proxyVars, pureVars, history>>

\* --------------------------------------------------- one model turn
\* The part shared by the submit and edit endpoints: build the history,
\* call generate_llm_response, persist the new messages; an exception that
\* leaves generate_llm_response is handed to create_error_assistant_message
TurnRows(rows, s, mcp_servers, outcome, error, first, dt) ==
    LET orig == langchain_messages(rows, s)
        response == generate_llm_response(mcp_servers, orig, outcome)
    IN  IF response.kind = "raise"
        THEN create_error_assistant_message(error, s, first, dt)
        ELSE PersistAll(messages_to_persist(response, orig), "create_chat_message",
                        s, first, dt)

\* The tool calls the agent graph ran during the turn
TurnCalls(rows, s, mcp_servers, outcome) ==
    LET response == generate_llm_response(mcp_servers,
                        langchain_messages(rows, s), outcome)
    IN  [i \in 1..Len(response.executed) |->
            [input |-> 0, tool |-> response.executed[i].name,
             parameters |-> json_loads(response.executed[i].arguments),
             action |-> "graph"]]

ModelEffects(mcp_servers, outcome, calls_made) ==
    (IF outcome = "config_error" THEN <<>>
     ELSE IF mcp_servers THEN <<Eff("discover", 0), Eff("model", 0)>>
     ELSE <<Eff("model", 0)>>)
    \o [i \in 1..Len(calls_made) |-> Eff("exec", 0)]
    \o (IF outcome \in {"config_error", "fail"} THEN <<Eff("raise", 0)>> ELSE <<>>)

TurnEffects(mcp_servers, outcome, calls_made, newRows) ==
    ModelEffects(mcp_servers, outcome, calls_made) \o InsertEffects(newRows)

\* The inputs of one model call that make sense together
TurnInput(mcp_servers, outcome, error) ==
    /\ outcome \in {"tool", "both"} => mcp_servers
    /\ error \in (IF outcome = "config_error" THEN ConfigErrors ELSE {NoError})

\* ------------------------------------------------------------- submit
Op(op, s, m, action, arg, status, effects) ==
    [op |-> op, sess |-> s, msg |-> m, action |-> action, arg |-> arg,
     status |-> status, effects |-> effects, handed |-> <<>>]

\* POST /chat/sessions: new session, first user message, one model turn.
\* d is the time the model call takes.
create_chat_session_with_message(s, text, mcp_servers, outcome, error, d) ==
    LET db_message == ChatMessage(nextId, s, "user", <<text>>, clock)
        rows1 == Append(db, db_message)
        ran == TurnCalls(rows1, s, mcp_servers, outcome)
        persisted == TurnRows(rows1, s, mcp_servers, outcome, error,
                              nextId + 1, clock + d)
    IN  /\ Handled
        /\ sessions[s] = "none"
        /\ TurnInput(mcp_servers, outcome, error)
        /\ clock + d <= MaxClock
        /\ sessions' = [sessions EXCEPT ![s] = "live"]
        /\ db' = rows1 \o persisted
        /\ nextId' = nextId + 1 + Len(persisted)
        /\ clock' = clock + d
        /\ toolCalls' = toolCalls \o ran
        /\ lastOp' = Op("create_session", s, nextId, "", text, "ok",
                        <<Eff("insert", nextId)>>
                        \o TurnEffects(mcp_servers, outcome, ran, persisted))
        /\ UNCHANGED resolved

\* POST /chat/sessions/{sessionId}/messages
create_chat_message(s, text, mcp_servers, outcome, error, d) ==
    LET db_message == ChatMessage(nextId, s, "user", <<text>>, clock)
        rows1 == Append(db, db_message)
        ran == TurnCalls(rows1, s, mcp_servers, outcome)
        persisted == TurnRows(rows1, s, mcp_servers, outcome, error,
                              nextId + 1, clock + d)
    IN  /\ Handled
        /\ sessions[s] = "live"
        /\ TurnInput(mcp_servers, outcome, error)
        /\ clock + d <= MaxClock
        /\ db' = rows1 \o persisted
        /\ nextId' = nextId + 1 + Len(persisted)
        /\ clock' = clock + d
        /\ toolCalls' = toolCalls \o ran
        /\ lastOp' = Op("create_message", s, nextId, "", text, "ok",
                        <<Eff("insert", nextId)>>
                        \o TurnEffects(mcp_servers, outcome, ran, persisted))
        /\ UNCHANGED <<sessions, resolved>>

\* --------------------------------------------------------------- edit
\* PUT /chat/sessions/{sessionId}/messages/{messageId}
\* A query for the later rows that leaves out the session filter
subsequent_messages_of_any_session(rows, s, dt) ==
    {rows[i].msg_id : i \in {j \in 1..Len(rows) : rows[j].creation_dt > dt}}

\* subsequent_messages: the rows of the session created after dt
subsequent_messages(rows, s, dt) ==
    {rows[i].msg_id : i \in {j \in 1..Len(rows) :
        rows[j].msg_cht_id = s /\ rows[j].creation_dt > dt}}

DeleteRows(rows, ids) == SelectSeq(rows, LAMBDA r : r.msg_id \notin ids)

DeleteEffects(rows, ids) ==
    LET gone == SelectSeq(rows, LAMBDA r : r.msg_id \in ids)
    IN  [i \in 1..Len(gone) |-> Eff("delete", gone[i].msg_id)]

\* An edit that does not look at the role of the message
update_chat_message_of_any_role(s, m, text, mcp_servers, outcome, error, d) ==
    /\ Handled
    /\ sessions[s] = "live"
    /\ HasMessage(db, s, m)
    /\ TurnInput(mcp_servers, outcome, error)
    /\ clock + d <= MaxClock
    /\ LET later == subsequent_messages(db, s, MessageAt(db, m).creation_dt)
           rows1 == DeleteRows(SetContent(db, m, <<text>>), later)
           ran == TurnCalls(rows1, s, mcp_servers, outcome)
           persisted == TurnRows(rows1, s, mcp_servers, outcome, error,
                                 nextId, clock + d)
       IN  /\ db' = rows1 \o persisted
           /\ nextId' = nextId + Len(persisted)
           /\ toolCalls' = toolCalls \o ran
           /\ lastOp' = Op("edit", s, m, "", text, "ok",
                           <<Eff("update", m)>>
                           \o DeleteEffects(db, later)
                           \o <<Eff("commit", 0)>>
                           \o TurnEffects(mcp_servers, outcome, ran, persisted))
    /\ clock' = clock + d
    /\ UNCHANGED <<sessions, resolved>>

\* The edit of a user message: the content is replaced, the later rows of
\* the session are deleted, and one model turn follows
update_chat_message(s, m, text, mcp_servers, outcome, error, d) ==
    /\ Handled
    /\ sessions[s] = "live"
    /\ HasMessage(db, s, m)
    /\ MessageAt(db, m).msg_role = "user"
    /\ TurnInput(mcp_servers, outcome, error)
    /\ clock + d <= MaxClock
    /\ LET later == subsequent_messages(db, s, MessageAt(db, m).creation_dt)
           rows1 == DeleteRows(SetContent(db, m, <<text>>), later)
           ran == TurnCalls(rows1, s, mcp_servers, outcome)
           persisted == TurnRows(rows1, s, mcp_servers, outcome, error,
                                 nextId, clock + d)
       IN  /\ db' = rows1 \o persisted
           /\ nextId' = nextId + Len(persisted)
           /\ toolCalls' = toolCalls \o ran
           /\ lastOp' = Op("edit", s, m, "", text, "ok",
                           <<Eff("update", m)>>
                           \o DeleteEffects(db, later)
                           \o <<Eff("commit", 0)>>
                           \o TurnEffects(mcp_servers, outcome, ran, persisted))
    /\ clock' = clock + d
    /\ UNCHANGED <<sessions, resolved>>

\* The same endpoint on a message that is not a user message: 400
update_chat_message_rejected(s, m) ==
    /\ Handled
    /\ sessions[s] = "live"
    /\ HasMessage(db, s, m)
    /\ MessageAt(db, m).msg_role # "user"
    /\ lastOp' = Op("edit", s, m, "", "", "400", <<>>)
    /\ UNCHANGED <<sessions, db, nextId, clock, toolCalls, resolved>>

\* ------------------------------------------------------------- delete
\* DELETE /chat/sessions/{sessionId}/messages/{messageId}
delete_chat_message(s, m) ==
    /\ Handled
    /\ sessions[s] = "live"
    /\ HasMessage(db, s, m)
    /\ db' = DeleteRows(db, {m})
    /\ lastOp' = Op("delete_message", s, m, "", "", "ok", <<Eff("delete", m)>>)
    /\ UNCHANGED <<sessions, nextId, clock, toolCalls, resolved>>

\* A session delete whose cascade is not held to the session
delete_chat_session_with_every_message(s) ==
    /\ Handled
    /\ sessions[s] = "live"
    /\ sessions' = [sessions EXCEPT ![s] = "deleted"]
    /\ LET ids == {db[i].msg_id : i \in 1..Len(db)}
       IN  /\ db' = DeleteRows(db, ids)
           /\ lastOp' = Op("delete_session", s, 0, "", "", "ok",
                           DeleteEffects(db, ids))
    /\ UNCHANGED <<nextId, clock, toolCalls, resolved>>

\* DELETE /chat/sessions/{sessionId}: the messages go with the session
delete_chat_session(s) ==
    /\ Handled
    /\ sessions[s] = "live"
    /\ sessions' = [sessions EXCEPT ![s] = "deleted"]
    /\ LET ids == {db[i].msg_id : i \in {j \in 1..Len(db) : db[j].msg_cht_id = s}}
       IN  /\ db' = DeleteRows(db, ids)
           /\ lastOp' = Op("delete_session", s, 0, "", "", "ok",
                           DeleteEffects(db, ids))
    /\ UNCHANGED <<nextId, clock, toolCalls, resolved>>

\* ------------------------------------------------------------ resolve
\* POST /chat/sessions/{sessionId}/messages/{messageId}/approve
\* A lookup of the message by id and session alone
IsToolInput_of_any_role(rows, s, m) ==
    \E i \in 1..Len(rows) : /\ rows[i].msg_id = m
                            /\ rows[i].msg_cht_id = s

\* The row the approval endpoint looks up: id, session and role tool_input
IsToolInput(rows, s, m) ==
    \E i \in 1..Len(rows) : /\ rows[i].msg_id = m
                            /\ rows[i].msg_cht_id = s
                            /\ rows[i].msg_role = "tool_input"

WellFormed(content) ==
    Len(content) = 4 /\ content[1] = "Tool: " /\ content[3] = ", Arguments: "

approval_content(action, modifiedParameters, rejectionReason) ==
    CASE action = "approve" -> <<"[APPROVAL DECISION] ", "approved">>
      [] action = "modify" ->
            <<"[APPROVAL DECISION] ", "modified",
              IF Truthy(modifiedParameters) THEN json_dumps(modifiedParameters)
              ELSE "None">>
      [] OTHER ->
            <<"[APPROVAL DECISION] ", "rejected",
              IF rejectionReason # "" THEN rejectionReason
              ELSE "No reason provided">>

\* A handler that writes no approval tracking message
db_approval_message_absent(s, action, modifiedParameters, rejectionReason, id, dt) ==
    <<>>

\* The approval tracking message, written and committed before anything
\* else is done with the request
db_approval_message(s, action, modifiedParameters, rejectionReason, id, dt) ==
    <<ChatMessage(id, s, "system",
          approval_content(action, modifiedParameters, rejectionReason), dt)>>

\* The inputs of one resolve request that make sense together
ApprovalInput(action, modifiedParameters, rejectionReason, mcp_servers, outcome) ==
    /\ action \in {"approve", "modify", "reject"}
    /\ modifiedParameters \in (IF action = "modify"
                                THEN ModifiedDicts \cup {None} ELSE {None})
    /\ rejectionReason \in (IF action = "reject" THEN RejectionReasons ELSE {""})
    /\ outcome \in {"tool", "both"} => mcp_servers

\* A reject branch that writes a fixed text
RejectBranch_fixed_text(rows0, s, m, rejectionReason, first, dt) ==
    [rows |-> Append(rows0,
                 ChatMessage(first, s, "tool_response",
                     <<"Tool call rejected: ",
                       "Tool call was rejected by user">>, dt)),
     effects |-> <<Eff("insert", first)>>,
     calls |-> <<>>,
     response |-> first,
     handed |-> <<>>,
     used |-> 1]

\* The reject branch: the tool_response is written from the reason and the
\* request returns; rows0 already holds the audit row
RejectBranch(rows0, s, m, rejectionReason, first, dt) ==
    [rows |-> Append(rows0,
                 ChatMessage(first, s, "tool_response",
                     <<"Tool call rejected: ",
                       IF rejectionReason # "" THEN rejectionReason
                       ELSE "Tool call was rejected by user">>, dt)),
     effects |-> <<Eff("insert", first)>>,
     calls |-> <<>>,
     response |-> first,
     handed |-> <<>>,
     used |-> 1]

\* The text of the tool_response: the result, or the error of a failed run
tool_response_content(tool_execution_result) ==
    IF tool_execution_result.success THEN tool_execution_result.result
    ELSE <<"Tool execution failed: ">> \o tool_execution_result.error

\* A handler that writes a tool_response for successful runs only
db_tool_response_on_success_only(tool_execution_result, s, id, dt) ==
    IF tool_execution_result.success
    THEN <<ChatMessage(id, s, "tool_response",
               tool_response_content(tool_execution_result), dt)>>
    ELSE <<>>

\* The tool_response row, written and committed whatever the run gave
db_tool_response(tool_execution_result, s, id, dt) ==
    <<ChatMessage(id, s, "tool_response",
          tool_response_content(tool_execution_result), dt)>>

\* The approve / modify branch, from the parse of the stored tool call to
\* the last continuation row; rows0 already holds the audit row
ExecuteBranch(rows0, s, m, action, modifiedParameters, mcp_servers, tout, outcome, first, dt) ==
    LET msg_content == MessageAt(rows0, m).msg_content
        tool_name == msg_content[2]
        original_arguments_str == msg_content[4]
        modified == action = "modify" /\ Truthy(modifiedParameters)
        tool_parameters == IF modified THEN modifiedParameters
                           ELSE json_loads(original_arguments_str)
        rows1 == IF modified
                 THEN SetContent(rows0, m,
                          ToolInputContent(tool_name, json_dumps(tool_parameters)))
                 ELSE rows0
        tool_execution_result ==
            process_tool_call_approval(tool_name, tool_parameters, action,
                mcp_servers,
                IF action = "modify" THEN modifiedParameters ELSE None,
                "", tout)
        written == db_tool_response(tool_execution_result, s, first, dt)
        rows2 == rows1 \o written
        orig == langchain_messages(rows2, s)
        ai_response == continue_conversation_after_tool(mcp_servers, orig,
                           tool_response_content(tool_execution_result), outcome)
        ran == [i \in 1..Len(ai_response.executed) |->
                   [input |-> 0, tool |-> ai_response.executed[i].name,
                    parameters |-> json_loads(ai_response.executed[i].arguments),
                    action |-> "graph"]]
        continuation == PersistAll(messages_to_persist(ai_response, orig),
                                   "approve_tool_call", s, first + Len(written), dt)
    IN  [rows |-> rows2 \o continuation,
         effects |->
            (IF modified THEN <<Eff("update", m)>> ELSE <<>>)
            \o (IF tool_execution_result.connected
                THEN <<Eff("connect", m)>> ELSE <<>>)
            \o (IF tool_execution_result.invoked
                THEN <<Eff("exec", m)>> ELSE <<>>)
            \o (IF tool_execution_result.success
                THEN <<>> ELSE <<Eff("toolfail", m)>>)
            \o InsertEffects(written)
            \o ModelEffects(mcp_servers, outcome, ran)
            \o InsertEffects(continuation),
         calls |->
            (IF tool_execution_result.invoked
             THEN <<[input |-> m, tool |-> tool_name,
                     parameters |-> tool_execution_result.parameters,
                     action |-> action]>>
             ELSE <<>>) \o ran,
         response |-> first,
         handed |-> updated_messages(orig,
                        tool_response_content(tool_execution_result)),
         used |-> Len(written) + Len(continuation)]

\* A stored tool call that does not parse: HTTPException 400 is raised
\* inside the handler's try and handled by its own except Exception
MalformedBranch(rows0, s, first, dt) ==
    LET errRows == create_error_assistant_message(
                       Error("HTTPException", 400, {}), s, first, dt)
    IN  [rows |-> rows0 \o errRows,
         effects |-> <<Eff("raise", 0)>> \o InsertEffects(errRows),
         calls |-> <<>>,
         response |-> 0,
         handed |-> <<>>,
         used |-> Len(errRows)]

\* d is the time the tool run and the model call take.
approve_tool_call(s, m, action, modifiedParameters, rejectionReason, mcp_servers, tout, outcome, d) ==
    /\ Handled
    /\ sessions[s] = "live"
    /\ IsToolInput(db, s, m)
    /\ ApprovalInput(action, modifiedParameters, rejectionReason, mcp_servers,
                     outcome)
    /\ clock + d <= MaxClock
    /\ LET audit == db_approval_message(s, action, modifiedParameters,
                        rejectionReason, nextId, clock)
           rows0 == db \o audit
           first == nextId + Len(audit)
           r == IF action = "reject"
                THEN RejectBranch(rows0, s, m, rejectionReason, first, clock)
                ELSE IF ~ WellFormed(MessageAt(db, m).msg_content)
                THEN MalformedBranch(rows0, s, first, clock)
                ELSE ExecuteBranch(rows0, s, m, action, modifiedParameters,
                         mcp_servers, tout, outcome, first, clock + d)
       IN  /\ db' = r.rows
           /\ nextId' = first + r.used
           /\ toolCalls' = toolCalls \o r.calls
           /\ resolved' = IF r.response = 0 THEN resolved
                          ELSE Append(resolved,
                                   [input |-> m, action |-> action,
                                    response |-> r.response])
           /\ lastOp' = [Op("resolve", s, m, action,
                              IF action = "reject" THEN rejectionReason
                              ELSE IF action = "modify" THEN modifiedParameters
                              ELSE "",
                              IF r.response = 0 THEN "error" ELSE "ok",
                              InsertEffects(audit) \o r.effects)
                          EXCEPT !.handed = r.handed]
    /\ clock' = clock + d
    /\ UNCHANGED sessions

\* The exception a failing db.commit() raises (sqlalchemy OperationalError)
CommitErrors == {Error("OperationalError", 0, {})}

\* The same endpoint when the db.commit() that stores the tool_response
\* raises: the audit row is committed, a modify has rewritten the
\* tool_input, the tool has run; the handler's except Exception hands the
\* exception to create_error_assistant_message, whose own commit gives the
\* row when the database has recovered and raises again when it has not
approve_tool_call_commit_fails(s, m, action, modifiedParameters, rejectionReason, mcp_servers, tout, error, recovered) ==
    /\ Handled
    /\ sessions[s] = "live"
    /\ IsToolInput(db, s, m)
    /\ ApprovalInput(action, modifiedParameters, rejectionReason, mcp_servers,
                     "text")
    /\ action # "reject" => WellFormed(MessageAt(db, m).msg_content)
    /\ error \in CommitErrors
    /\ LET audit == db_approval_message(s, action, modifiedParameters,
                        rejectionReason, nextId, clock)
           first == nextId + Len(audit)
           msg_content == MessageAt(db, m).msg_content
           modified == action = "modify" /\ Truthy(modifiedParameters)
           tool_parameters == IF modified THEN modifiedParameters
                              ELSE json_loads(msg_content[4])
           rows1 == IF modified
                    THEN SetContent(db \o audit, m,
                             ToolInputContent(msg_content[2],
                                 json_dumps(tool_parameters)))
                    ELSE db \o audit
           tool_execution_result ==
               IF action = "reject"
               THEN ToolResult(FALSE, <<>>, <<>>, FALSE, FALSE)
                        @@ [parameters |-> None]
               ELSE process_tool_call_approval(msg_content[2], tool_parameters,
                        action, mcp_servers,
                        IF action = "modify" THEN modifiedParameters ELSE None,
                        "", tout)
           errRows == IF recovered
                      THEN create_error_assistant_message(error, s, first, clock)
                      ELSE <<>>
       IN  /\ db' = rows1 \o errRows
           /\ nextId' = first + Len(errRows)
           /\ toolCalls' = toolCalls \o
                 (IF tool_execution_result.invoked
                  THEN <<[input |-> m, tool |-> msg_content[2],
                          parameters |-> tool_execution_result.parameters,
                          action |-> action]>>
                  ELSE <<>>)
           /\ lastOp' = Op("resolve", s, m, action,
                           IF action = "reject" THEN rejectionReason
                           ELSE IF action = "modify" THEN modifiedParameters
                           ELSE "",
                           "error",
                           InsertEffects(audit)
                           \o (IF modified THEN <<Eff("update", m)>> ELSE <<>>)
                           \o (IF tool_execution_result.connected
                               THEN <<Eff("connect", m)>> ELSE <<>>)
                           \o (IF tool_execution_result.invoked
                               THEN <<Eff("exec", m)>> ELSE <<>>)
                           \o <<Eff("raise", 0)>>
                           \o InsertEffects(errRows))
    /\ UNCHANGED <<sessions, clock, resolved>>

\* The same endpoint on an id that is not a tool_input of the session: 404
approve_tool_call_not_found(s, m) ==
    /\ Handled
    /\ sessions[s] = "live"
    /\ m \in 1..(nextId - 1)
    /\ ~ IsToolInput(db, s, m)
    /\ lastOp' = Op("resolve", s, m, "", "", "404", <<>>)
    /\ UNCHANGED <<sessions, db, nextId, clock, toolCalls, resolved>>

\* ============================================ tool-server connections
\* utils/mcpTool.py (tool probing) and the tool discovery of
\* generate_llm_response.  Time is counted in tenths of a second.
MAX_RETRIES == 3

BASE_DELAY == 5             \* 0.5 s

CONNECTION_SEMAPHORE == 2   \* asyncio.Semaphore(2)

MaxRefusals == 2    \* a server refuses at most this many connections in a row

Procs == {"p1", "p2", "p3"}

\* The tool servers configured for the agent of a turn
Servers == {"srv1", "srv2", "srv3"}

\* The servers that are down while a turn discovers its tools
Outages == {{}, {"srv2"}}

ProcIdle ==
    [kind |-> "none", pc |-> "idle", attempt |-> 0, waited |-> 0, raised |-> 0,
     refusals |-> 0, tried |-> 0, servers |-> {}, unreachable |-> {},
     result |-> "none", offered |-> {}, invoked |-> FALSE,
     delays |-> <<>>, failures |-> <<>>]

ConnIdle ==
    /\ procs = [p \in Procs |-> ProcIdle]
    /\ semaphore = CONNECTION_SEMAPHORE

\* The connections to tool servers that are being made right now
ConnectionsInProgress ==
    {c \in Procs \X Servers : /\ procs[c[1]].pc = "connecting"
                              /\ c[2] \in procs[c[1]].servers}

\* POST /tools/{toolId}/resources calls asyncio.run(test_mcp_configuration):
\* the server of the tool refuses its first `refusals` connections
test_mcp_configuration(p, refusals) ==
    /\ procs[p].pc = "idle"
    /\ refusals \in 0..MaxRefusals
    /\ procs' = [procs EXCEPT ![p] =
          [ProcIdle EXCEPT !.kind = "probe", !.pc = "acquire",
                           !.refusals = refusals, !.servers = {"srv1"}]]
    /\ UNCHANGED semaphore

\* async with CONNECTION_SEMAPHORE: waits while the value is 0
acquire_semaphore(p) ==
    /\ procs[p].pc = "acquire"
    /\ semaphore > 0
    /\ semaphore' = semaphore - 1
    /\ procs' = [procs EXCEPT ![p].pc = "loop"]

\* What a caller that finds the value 0 can get from the wait.  The
\* semaphore is one module-level object, and every caller runs
\* asyncio.run(test_mcp_configuration(...)) on its own thread with its own
\* event loop.  The wait is a future of one loop: the semaphore refuses it
\* with a RuntimeError that names a different event loop, or the release
\* made on another thread completes it without waking the waiter's loop.
LockedOutcomes == {"RuntimeError", "not woken"}

\* async with CONNECTION_SEMAPHORE when the value is 0 and the slots are
\* held by callers of other event loops: the RuntimeError is the exception
\* that test_mcp_configuration turns into (False, 0, error_message, None);
\* a caller that is not woken stays in the wait
acquire_semaphore_locked(p, outcome) ==
    /\ procs[p].pc = "acquire"
    /\ semaphore = 0
    /\ outcome \in LockedOutcomes
    /\ procs' = [procs EXCEPT ![p] =
          IF outcome = "RuntimeError"
          THEN [procs[p] EXCEPT !.pc = "done", !.result = "failure"]
          ELSE [procs[p] EXCEPT !.pc = "waiting"]]
    /\ UNCHANGED semaphore

\* The caller has been inside async with CONNECTION_SEMAPHORE
HasHeldSlot(p) ==
    \/ procs[p].pc \in {"loop", "manager", "connecting"}
    \/ /\ procs[p].pc = "done"
       /\ procs[p].tried > 0 \/ procs[p].failures # <<>>

\* A retry delay that does not double
retry_delay_without_doubling(attempt) ==
    IF attempt > 0 THEN BASE_DELAY ELSE 0

\* The sleep before attempt number attempt (0, 1, 2) of the retry loop
retry_delay(attempt) ==
    IF attempt > 0 THEN BASE_DELAY * (2 ^ (attempt - 1)) ELSE 0

\* An additional delay counted from the loop variable
additional_delay_from_zero(attempt) == 10 * attempt

\* The sleep after a failure that names BlockingIOError
additional_delay(attempt) == 10 * (attempt + 1)

\* One pass of the loop of _create_test_connection_with_retry: the delay,
\* then return stdio_client(server_params), which builds the context manager
\* and connects to nothing.  outcome is what that call does: it returns, it
\* raises, or it raises BlockingIOError.  Leaving the function releases the
\* semaphore.  delays lists the sleeps made before the attempts, failures
\* the failed attempts (numbered from 1) with the extra sleep each caused.
retry_attempt(p, outcome) ==
    LET me == procs[p]
        slept == me.waited + retry_delay(me.attempt)
        delays == IF me.attempt > 0
                  THEN Append(me.delays, retry_delay(me.attempt)) ELSE me.delays
        last == me.attempt = MAX_RETRIES - 1
        extra == IF outcome = "BlockingIOError" /\ ~ last
                 THEN additional_delay(me.attempt) ELSE 0
        failures == Append(me.failures,
                        [n |-> me.attempt + 1, cause |-> outcome, extra |-> extra])
    IN  /\ me.pc = "loop"
        /\ IF outcome = "return"
           THEN /\ procs' = [procs EXCEPT ![p] =
                      [me EXCEPT !.waited = slept, !.delays = delays,
                                 !.pc = "manager"]]
                /\ semaphore' = semaphore + 1
           ELSE IF last
           THEN /\ procs' = [procs EXCEPT ![p] =
                      [me EXCEPT !.waited = slept, !.delays = delays,
                                 !.failures = failures,
                                 !.raised = me.raised + 1,
                                 !.pc = "done", !.result = "failure"]]
                /\ semaphore' = semaphore + 1
           ELSE /\ procs' = [procs EXCEPT ![p] =
                      [me EXCEPT !.waited = slept + extra, !.delays = delays,
                                 !.failures = failures,
                                 !.raised = me.raised + 1,
                                 !.attempt = me.attempt + 1]]
                /\ UNCHANGED semaphore

\* async with connection_manager: the server process is started and the
\* session initialised, outside the semaphore and outside the retry loop
enter_connection(p) ==
    /\ procs[p].pc = "manager"
    /\ procs' = [procs EXCEPT ![p].pc = "connecting",
                              ![p].tried = procs[p].tried + 1]
    /\ UNCHANGED semaphore

\* The connection is made or refused: the server refuses its first
\* `refusals` connections.  A refusal is the exception that
\* test_mcp_configuration turns into (False, 0, error_message, None)
finish_test_mcp_configuration(p) ==
    LET me == procs[p]
    IN  /\ me.kind = "probe"
        /\ me.pc = "connecting"
        /\ procs' = [procs EXCEPT ![p] =
              IF me.tried <= me.refusals
              THEN [me EXCEPT !.pc = "done", !.result = "failure"]
              ELSE [me EXCEPT !.pc = "done", !.result = "success",
                              !.offered = me.servers]]
        /\ UNCHANGED semaphore

\* generate_llm_response with mcp_servers: MultiServerMCPClient(mcp_servers)
\* .get_tools() connects to every configured server, all at once, without
\* the semaphore and without a retry
get_tools(p, unreachable) ==
    /\ procs[p].pc = "idle"
    /\ unreachable \in Outages
    /\ procs' = [procs EXCEPT ![p] =
          [ProcIdle EXCEPT !.kind = "discover", !.pc = "connecting",
                           !.servers = Servers, !.unreachable = unreachable,
                           !.tried = 1]]
    /\ UNCHANGED semaphore

\* get_tools gathers the servers' tool lists: one server that cannot be
\* reached makes the whole call raise, and generate_llm_response returns
\* None from its except clause without calling the model
finish_get_tools(p) ==
    LET me == procs[p]
        response == generate_llm_response(TRUE, <<>>,
                        IF me.unreachable # {} THEN "fail" ELSE "text")
    IN  /\ me.kind = "discover"
        /\ me.pc = "connecting"
        /\ procs' = [procs EXCEPT ![p] =
              IF response.kind = "none"
              THEN [me EXCEPT !.pc = "done", !.result = "failure"]
              ELSE [me EXCEPT !.pc = "done", !.result = "success",
                              !.offered = me.servers, !.invoked = TRUE]]
        /\ UNCHANGED semaphore

NotConn == UNCHANGED <<chatVars, proxyVars, pureVars, history>>

Probe ==
    /\ NotConn
    /\ \E p \in Procs, n \in 0..MaxRefusals : test_mcp_configuration(p, n)

\* A probe of a server that accepts its first connection
ProbeLiveServer ==
    /\ NotConn
    /\ \E p \in Procs : test_mcp_configuration(p, 0)

AcquireSlot ==
    /\ NotConn
    /\ \E p \in Procs : acquire_semaphore(p)

RetryAttempt ==
    /\ NotConn
    /\ \E p \in Procs, o \in {"return", "raise", "BlockingIOError"} : retry_attempt(p, o)

AcquireLocked ==
    /\ NotConn
    /\ \E p \in Procs, o \in LockedOutcomes : acquire_semaphore_locked(p, o)

EnterConnection ==
    /\ NotConn
    /\ \E p \in Procs : enter_connection(p)

FinishProbe ==
    /\ NotConn
    /\ \E p \in Procs : finish_test_mcp_configuration(p)

Discover ==
    /\ NotConn
    /\ \E p \in Procs, u \in Outages : get_tools(p, u)

FinishDiscover ==
    /\ NotConn
    /\ \E p \in Procs : finish_get_tools(p)

\* ================================================== proxy environment
\* utils/proxy.py and the proxy handling of configure_llm.  os.environ is
\* one table for the whole process; the chat endpoints are sync handlers
\* that run on the thread pool, so model calls overlap.
ProxyVariables ==
    {"HTTP_PROXY", "http_proxy", "HTTPS_PROXY", "https_proxy",
     "NO_PROXY", "no_proxy"}

Absent == "(absent)"

\* settings.HTTPPROXY, settings.HTTPSPROXY, settings.NOPROXY; "" is the
\* default of a setting that is not configured
HTTPPROXY == "http://proxy:3128"

HTTPSPROXY == "http://proxy:3128"

NOPROXY == ""

update_proxy_config(env) ==
    [v \in ProxyVariables |->
        IF v \in {"HTTP_PROXY", "http_proxy"} /\ HTTPPROXY # "" THEN HTTPPROXY
        ELSE IF v \in {"HTTPS_PROXY", "https_proxy"} /\ HTTPSPROXY # ""
        THEN HTTPSPROXY
        ELSE IF v \in {"NO_PROXY", "no_proxy"} /\ NOPROXY # "" THEN NOPROXY
        ELSE env[v]]

delete_proxy_config(env) == [v \in ProxyVariables |-> Absent]

\* The environment the service is started in: nothing set, or the host's
\* own proxy settings
HostEnvirons ==
    {[v \in ProxyVariables |-> Absent],
     [v \in ProxyVariables |->
        IF v \in {"NO_PROXY", "no_proxy"} THEN "localhost"
        ELSE IF v = "HTTP_PROXY" THEN "http://corp:8080" ELSE Absent]}

\* __main__.py calls update_proxy_config() before it serves; an app started
\* another way (uvicorn app.main:app) does not
StartEnvirons == HostEnvirons \cup {update_proxy_config(e) : e \in HostEnvirons}

LlmCalls == {"c1", "c2"}

NoEnviron == [v \in ProxyVariables |-> "(not yet)"]

CallIdle ==
    [pc |-> "idle", proxy_required |-> FALSE, raises |-> FALSE,
     before |-> NoEnviron, built |-> NoEnviron, invoked |-> NoEnviron]

ProxyIdle ==
    /\ environ = [v \in ProxyVariables |-> Absent]
    /\ llm_calls = [c \in LlmCalls |-> CallIdle]

\* configure_llm up to its try: the proxy is set if required.  raises says
\* whether the provider branch is going to raise ValueError.
configure_llm(c, proxy_required, raises) ==
    /\ llm_calls[c].pc = "idle"
    /\ environ' = IF proxy_required THEN update_proxy_config(environ)
                  ELSE environ
    /\ llm_calls' = [llm_calls EXCEPT ![c] =
          [CallIdle EXCEPT !.pc = "try", !.proxy_required = proxy_required,
                           !.raises = raises, !.before = environ]]

\* The try block: the chat model object of the provider is built, under
\* the environment of that moment
configure_llm_try(c) ==
    /\ llm_calls[c].pc = "try"
    /\ llm_calls' = [llm_calls EXCEPT ![c].pc = "finally",
                                      ![c].built = environ]
    /\ UNCHANGED environ

\* finally: the proxy is unset if it was required; then the model is
\* returned to generate_llm_response, or the ValueError goes on
configure_llm_finally(c) ==
    /\ llm_calls[c].pc = "finally"
    /\ environ' = IF llm_calls[c].proxy_required
                  THEN delete_proxy_config(environ) ELSE environ
    /\ llm_calls' = [llm_calls EXCEPT ![c].pc =
          IF llm_calls[c].raises THEN "done" ELSE "ainvoke"]

\* model.ainvoke / agent.ainvoke: the request to the provider
ainvoke(c) ==
    /\ llm_calls[c].pc = "ainvoke"
    /\ llm_calls' = [llm_calls EXCEPT ![c].pc = "done",
                                      ![c].invoked = environ]
    /\ UNCHANGED environ

NotProxy == UNCHANGED <<chatVars, connVars, pureVars, history>>

ConfigureLlm ==
    /\ NotProxy
    /\ \E c \in LlmCalls, q \in BOOLEAN, r \in BOOLEAN : configure_llm(c, q, r)

ConfigureLlmTry ==
    /\ NotProxy
    /\ \E c \in LlmCalls : configure_llm_try(c)

ConfigureLlmFinally ==
    /\ NotProxy
    /\ \E c \in LlmCalls : configure_llm_finally(c)

Ainvoke ==
    /\ NotProxy
    /\ \E c \in LlmCalls : ainvoke(c)

\* ==================================================== role classifier
\* The messages a provider can return: content as a string or as a list of
\* content blocks, with or without tool_calls in additional_kwargs
CallOf(name, arguments) == [name |-> name, arguments |-> arguments]

TextBlock == [type |-> "text", text |-> AnswerText, name |-> "", input |-> ""]

ToolUseBlock ==
    [type |-> "tool_use", text |-> "", name |-> ToolName, input |-> ProposedArgs]

MessageShapes ==
    [type : {"AIMessage", "HumanMessage", "SystemMessage", "ToolMessage",
             "FunctionMessage"},
     blocks : {FALSE},
     content : {<<>>, <<AnswerText>>},
     tool_calls : {<<>>, <<CallOf(ToolName, json_dumps(ProposedArgs))>>,
                   <<CallOf(ToolName, json_dumps(EmptyDict)),
                     CallOf("search", json_dumps(ProposedArgs))>>},
     id : {0}]
    \cup
    [type : {"AIMessage", "HumanMessage", "SystemMessage", "ToolMessage",
             "FunctionMessage"},
     blocks : {TRUE},
     content : {<<>>, <<TextBlock>>, <<ToolUseBlock>>,
                <<TextBlock, ToolUseBlock>>},
     tool_calls : {<<>>, <<CallOf(ToolName, json_dumps(ProposedArgs))>>,
                   <<CallOf(ToolName, json_dumps(EmptyDict)),
                     CallOf("search", json_dumps(ProposedArgs))>>},
     id : {0}]

Endpoints == {"create_chat_message", "approve_tool_call"}

NotClassified == [role |-> "(not yet)", content |-> <<>>]

ClassifierIdle ==
    classified = [msg |-> LcMessage("AIMessage", <<>>, <<>>),
                  endpoint |-> "create_chat_message", out |-> NotClassified]

\* One message of messages_to_persist goes through the role classifier
ClassifyMessage ==
    /\ classified.out = NotClassified
    /\ classified' = [classified EXCEPT
                         !.out = Classify(classified.endpoint, classified.msg)]
    /\ UNCHANGED <<chatVars, connVars, proxyVars, tool_run, error_seen, history,
                   text_call>>

\* ================================================= tool call results
\* One call of execute_mcp_tool and of process_tool_call_approval on the
\* same input.  The approval endpoint only sends the three actions of its
\* schema; the functions take any string.
ToolRunInputs ==
    [tool_name : {ToolName, "search"},
     tool_parameters : {ProposedArgs, EmptyDict},
     action : {"approve", "modify", "reject", "retry"},
     mcp_servers : BOOLEAN,
     modified_parameters : ModifiedDicts \cup {None},
     rejection_reason : RejectionReasons,
     tout : ToolFaults]

NotRun ==
    ToolResult(FALSE, <<>>, <<>>, FALSE, FALSE) @@ [parameters |-> None]

ToolRunIdle ==
    tool_run = [pc |-> "idle",
                input |-> [tool_name |-> ToolName, tool_parameters |-> ProposedArgs,
                           action |-> "approve", mcp_servers |-> FALSE,
                           modified_parameters |-> None, rejection_reason |-> "",
                           tout |-> "ok"],
                execution |-> NotRun, approval |-> NotRun]

RunTool ==
    /\ tool_run.pc = "idle"
    /\ LET i == tool_run.input
       IN  tool_run' = [tool_run EXCEPT
              !.pc = "done",
              !.execution = execute_mcp_tool(i.tool_name, i.tool_parameters,
                                i.mcp_servers, i.tout)
                            @@ [parameters |-> i.tool_parameters],
              !.approval = process_tool_call_approval(i.tool_name,
                               i.tool_parameters, i.action, i.mcp_servers,
                               i.modified_parameters, i.rejection_reason, i.tout)]
    /\ UNCHANGED <<chatVars, connVars, proxyVars, classified, error_seen, history,
                   text_call>>

\* ==================================================== error classifier
\* The exceptions an endpoint can hand to create_error_assistant_message
Markers ==
    {"rate_limit_exceeded", "Request too large", "TPM", "413", "429", "401",
     "connection", "Event loop is closed", "RuntimeError", "model"}

MaxMarks == 2       \* marker texts in one error text

ErrorShapes ==
    {Error(c.cls, c.status, k) :
        c \in ([cls : {"HTTPStatusError"},
                status : {400, 401, 403, 404, 413, 429, 500, 503}]
               \cup [cls : {"RequestError", "TimeoutException", "ValueError",
                            "RuntimeError", "HTTPException"},
                     status : {0}]),
        k \in {x \in SUBSET Markers : Cardinality(x) <= MaxMarks}}

ErrorIdle ==
    error_seen = [pc |-> "idle", error |-> NoError, rows |-> <<>>]

\* except Exception as e: create_error_assistant_message(e, ...)
ClassifyError ==
    /\ error_seen.pc = "idle"
    /\ error_seen' = [error_seen EXCEPT
          !.pc = "done",
          !.rows = create_error_assistant_message(error_seen.error,
                       SessionOrder[1], 1, 0)]
    /\ UNCHANGED <<chatVars, connVars, proxyVars, classified, tool_run, history,
                   text_call>>

\* ======================================================= history load
\* Rows are appended with creation_dt = datetime.utcnow(); a history load
\* is SELECT ... WHERE msg_cht_id = s ORDER BY creation_dt.  The primary key
\* is a random uuid and there is no second sort key, so rows of equal
\* creation_dt come back in whatever order the database produces.
MaxRows == 3        \* rows stored before the history is loaded

Orderings(n) ==
    {f \in [1..n -> 1..n] : \A i, j \in 1..n : i # j => f[i] # f[j]}

\* Every result ORDER BY creation_dt can give for the rows of session s
order_by_creation_dt(rows, s) ==
    LET mine == SessionMessages(rows, s)
        n == Len(mine)
    IN  {[i \in 1..n |-> mine[f[i]]] :
            f \in {g \in Orderings(n) :
                     \A i, j \in 1..n :
                        i < j => mine[g[i]].creation_dt <= mine[g[j]].creation_dt}}

HistoryIdle == history = [sess |-> "", appended |-> <<>>, rows |-> <<>>]

\* db.add(ChatMessage(...)); db.commit()
StoreMessage ==
    /\ Len(db) < MaxRows
    /\ \E s \in SessionIds, role \in {"user", "assistant"} :
          db' = Append(db, ChatMessage(nextId, s, role, <<SubmitText>>, clock))
    /\ nextId' = nextId + 1
    /\ UNCHANGED <<sessions, clock, toolCalls, resolved, lastOp, calls>>
    /\ UNCHANGED <<connVars, proxyVars, pureVars, history>>

\* all_messages = db.query(ChatMessage).filter(...).order_by(creation_dt).all()
\* appended keeps the rows of the session in the order they were stored
LoadHistory ==
    /\ \E s \in SessionIds :
         \E r \in order_by_creation_dt(db, s) :
            history' = [sess |-> s, appended |-> SessionMessages(db, s), rows |-> r]
    /\ UNCHANGED <<chatVars, connVars, proxyVars, pureVars>>

\* ==================================================== tool call text
\* The content of a tool_input row is f"Tool: {tool_name}, Arguments:
\* {tool_arguments}"; get_tool_call_details and approve_tool_call read the
\* name and the arguments back from it.  A text is the sequence of its
\* pieces; the prefix "Tool: " and the separator ", Arguments: " are pieces
\* of their own wherever they occur.
MaxNamePieces == 2  \* pieces in one tool name

NamePieces == {"calculator", "Tool: ", ", Arguments: "}

ToolNames ==
    UNION {[1..n -> NamePieces] : n \in 1..MaxNamePieces}

\* The argument objects a model proposes: {} and {"q": <string>}
ArgumentObjects ==
    {[key |-> "", value |-> <<>>]}
    \cup {[key |-> "q", value |-> v] :
            v \in {<<>>, <<"x">>, <<"Tool: ">>, <<", Arguments: ">>}}

\* json.dumps of an argument object, as the provider puts it into
\* function.arguments
dumps(object) ==
    IF object.key = "" THEN <<"{}">>
    ELSE <<"{\"", object.key, "\": \"">> \o object.value \o <<"\"}">>

\* json.loads of an arguments text, with the fallback {"arguments": <text>}
\* on JSONDecodeError
loads(text) ==
    IF text = <<"{}">> THEN [key |-> "", value |-> <<>>]
    ELSE IF /\ Len(text) >= 4
            /\ text[1] = "{\""
            /\ text[3] = "\": \""
            /\ text[Len(text)] = "\"}"
            /\ \A i \in 4..(Len(text) - 1) : text[i] \notin {"{\"", "\": \"", "\"}"}
    THEN [key |-> text[2], value |-> SubSeq(text, 4, Len(text) - 1)]
    ELSE [key |-> "arguments", value |-> text]

\* content = f"Tool: {tool_name}, Arguments: {tool_arguments}"
tool_input_content(tool_name, tool_arguments) ==
    <<"Tool: ">> \o tool_name \o <<", Arguments: ">> \o tool_arguments

\* The parse of get_tool_call_details and approve_tool_call: the format
\* test, parts = msg_content.split(", Arguments: ", 1), tool_name =
\* parts[0].replace("Tool: ", ""), json.loads(parts[1])
parse_tool_call(msg_content) ==
    IF \/ msg_content = <<>>
       \/ msg_content[1] # "Tool: "
       \/ ", Arguments: " \notin Range(msg_content)
    THEN [ok |-> FALSE, tool_name |-> <<>>, tool_parameters |-> loads(<<>>)]
    ELSE LET k == CHOOSE i \in 1..Len(msg_content) :
                     /\ msg_content[i] = ", Arguments: "
                     /\ \A j \in 1..(i - 1) : msg_content[j] # ", Arguments: "
             parts0 == SubSeq(msg_content, 1, k - 1)
             parts1 == SubSeq(msg_content, k + 1, Len(msg_content))
         IN  [ok |-> TRUE,
              tool_name |-> SelectSeq(parts0, LAMBDA piece : piece # "Tool: "),
              tool_parameters |-> loads(parts1)]

TextIdle == text_call = [pc |-> "none"]

NotText ==
    UNCHANGED <<chatVars, connVars, proxyVars, classified, tool_run, error_seen,
                history>>

\* The classifier stores the first tool call of an AIMessage as tool_input
StoreToolCall ==
    /\ text_call.pc = "proposed"
    /\ text_call' = [text_call EXCEPT
          !.pc = "stored",
          !.msg_content = tool_input_content(text_call.name,
                              dumps(text_call.arguments))]
    /\ NotText

\* The stored content is read back for the approval
ParseToolCall ==
    /\ text_call.pc = "stored"
    /\ text_call' = [text_call EXCEPT
          !.pc = "parsed",
          !.parsed = parse_tool_call(text_call.msg_content)]
    /\ NotText

\* ======================================================= session name
\* create_chat_session_with_message names the session after the first
\* message.  A text is given by the lengths of its parts: blanks, other
\* characters, blanks; dots counts the characters of an appended "...".
ChatNameLimit == 240    \* String(240), max_length=240, [:240]

Text(lead, body, trail) ==
    [lead |-> lead, body |-> body, trail |-> trail, dots |-> 0]

TextLen(t) == t.lead + t.body + t.trail + t.dots

Min(a, b) == IF a <= b THEN a ELSE b

\* content[:n]
Slice(t, n) ==
    LET lead == Min(t.lead, n)
        body == Min(t.body, n - lead)
        trail == Min(t.trail, n - lead - body)
    IN  Text(lead, body, trail)

\* str.strip()
Strip(t) == IF t.body = 0 THEN Text(0, 0, 0) ELSE Text(0, t.body, 0)

\* chat_name = messageContent[:240].strip(), and "..." appended when the
\* message is longer than 240 characters
chat_name(messageContent) ==
    IF TextLen(messageContent) > ChatNameLimit
    THEN [Strip(Slice(messageContent, ChatNameLimit)) EXCEPT !.dots = 3]
    ELSE Strip(Slice(messageContent, ChatNameLimit))

\* The first messages a caller sends
FirstMessages ==
    {Text(lead, body, trail) :
        lead \in {0, 1, 5},
        body \in {0, 1, 100, 234, 237, 238, 239, 240, 241, 500},
        trail \in {0, 1, 3, 10}}

NameSession ==
    /\ text_call.pc = "received"
    /\ text_call' = [text_call EXCEPT
          !.pc = "named",
          !.cht_name = chat_name(text_call.messageContent)]
    /\ NotText

\* ---------------------------------------------------------------- Next
MessageIds(s) == {db[i].msg_id : i \in {j \in 1..Len(db) : db[j].msg_cht_id = s}}

Live == {s \in SessionIds : sessions[s] = "live"}

\* Session ids are fresh uuids: they are taken in the order s1, s2
Fresh == {SessionOrder[i] : i \in {j \in 1..Len(SessionOrder) :
            /\ sessions[SessionOrder[j]] = "none"
            /\ \A k \in 1..(j - 1) : sessions[SessionOrder[k]] # "none"}}

\* get_agent_mcp_servers_config: the agent of s1 has one tool with an MCP
\* command, the agent of s2 has none
get_agent_mcp_servers_config(s) == s = "s1"

NotChat == UNCHANGED <<connVars, proxyVars, pureVars, history>>

\* The environment's part of one model turn
TurnEnv == {e \in [outcome : ModelOutcomes, d : 0..1,
                   error : ConfigErrors \cup {NoError}] :
              e.error \in (IF e.outcome = "config_error" THEN ConfigErrors
                           ELSE {NoError})}

SubmitNewSession ==
    /\ NotChat
    /\ \E s \in Fresh, e \in TurnEnv :
           create_chat_session_with_message(s, SubmitText,
               get_agent_mcp_servers_config(s), e.outcome, e.error, e.d)

SubmitMessage ==
    /\ NotChat
    /\ \E s \in Live, e \in TurnEnv :
           create_chat_message(s, SubmitText,
               get_agent_mcp_servers_config(s), e.outcome, e.error, e.d)

EditMessage ==
    /\ NotChat
    /\ \E s \in Live :
         \E m \in MessageIds(s), e \in TurnEnv :
           update_chat_message(s, m, EditText,
               get_agent_mcp_servers_config(s), e.outcome, e.error, e.d)

EditRejected ==
    /\ NotChat
    /\ \E s \in Live : \E m \in MessageIds(s) : update_chat_message_rejected(s, m)

DeleteMessage ==
    /\ NotChat
    /\ \E s \in Live : \E m \in MessageIds(s) : delete_chat_message(s, m)

DeleteSession ==
    /\ NotChat
    /\ \E s \in Live : delete_chat_session(s)

\* The requests a caller can send for one tool_input, with the
\* environment's part of each
ApprovalEnv ==
    [action : {"approve"}, modp : {None}, reason : {""}, tout : ToolOutcomes,
     outcome : ModelOutcomes \ {"config_error"}, d : 0..1]
    \cup
    [action : {"modify"}, modp : ModifiedDicts \cup {None}, reason : {""},
     tout : ToolOutcomes, outcome : ModelOutcomes \ {"config_error"}, d : 0..1]
    \cup
    [action : {"reject"}, modp : {None}, reason : RejectionReasons,
     tout : {"ok"}, outcome : {"text"}, d : {0}]

Resolve ==
    /\ NotChat
    /\ \E s \in Live :
         \E m \in {i \in MessageIds(s) : IsToolInput(db, s, i)}, r \in ApprovalEnv :
           approve_tool_call(s, m, r.action, r.modp, r.reason,
               get_agent_mcp_servers_config(s), r.tout, r.outcome, r.d)

ResolveNotFound ==
    /\ NotChat
    /\ \E s \in Live : \E m \in 1..(nextId - 1) : approve_tool_call_not_found(s, m)

\* A resolve during which the database stops taking writes
ResolveInterrupted ==
    /\ NotChat
    /\ \E s \in Live :
         \E m \in {i \in MessageIds(s) : IsToolInput(db, s, i)}, r \in ApprovalEnv :
           \E e \in CommitErrors, recovered \in BOOLEAN :
             /\ r.outcome = "text"
             /\ r.d = 0
             /\ approve_tool_call_commit_fails(s, m, r.action, r.modp, r.reason,
                    get_agent_mcp_servers_config(s), r.tout, e, recovered)

Next ==
    \/ Tick
    \/ SubmitNewSession
    \/ SubmitMessage
    \/ EditMessage
    \/ EditRejected
    \/ DeleteMessage
    \/ DeleteSession
    \/ Resolve
    \/ ResolveNotFound

\* Nothing is running besides the chat tables
Quiet ==
    /\ ConnIdle /\ ProxyIdle /\ ClassifierIdle /\ ToolRunIdle /\ ErrorIdle
    /\ HistoryIdle /\ TextIdle

Init == ChatInit /\ Quiet

Spec == Init /\ [][Next]_vars

\* Sessions are opened and their tool calls resolved while the database
\* stops taking writes
NextStorage ==
    \/ Tick
    \/ SubmitNewSession
    \/ ResolveInterrupted

SpecStorage == Init /\ [][NextStorage]_vars

\* Tool probing and tool discovery by concurrent callers
NextConnections ==
    \/ Probe
    \/ AcquireSlot
    \/ RetryAttempt
    \/ EnterConnection
    \/ FinishProbe
    \/ Discover
    \/ FinishDiscover

SpecConnections == Init /\ [][NextConnections]_vars

\* Callers of the tool probe that share the semaphore, each on its own
\* event loop.  Every loop keeps running, so a caller in the retry loop
\* goes on to its next attempt; asyncio hands a released slot to its
\* waiters in turn, so a caller that can take a slot again and again takes
\* one.
NextSlots ==
    \/ ProbeLiveServer
    \/ AcquireSlot
    \/ AcquireLocked
    \/ RetryAttempt

FairSlots ==
    /\ \A p \in Procs : SF_vars(NotConn /\ acquire_semaphore(p))
    /\ \A p \in Procs :
          WF_vars(NotConn /\ \E o \in {"return", "raise", "BlockingIOError"} :
                                retry_attempt(p, o))

SpecSlots == Init /\ [][NextSlots]_vars /\ FairSlots

\* Overlapping model calls and the proxy variables
InitProxy ==
    /\ ChatInit /\ ConnIdle /\ ClassifierIdle /\ ToolRunIdle /\ ErrorIdle /\ HistoryIdle
    /\ TextIdle
    /\ environ \in StartEnvirons
    /\ llm_calls = [c \in LlmCalls |-> CallIdle]

NextProxy ==
    \/ ConfigureLlm
    \/ ConfigureLlmTry
    \/ ConfigureLlmFinally
    \/ Ainvoke

SpecProxy == InitProxy /\ [][NextProxy]_vars

\* The role classifier applied to every message shape
InitClassifier ==
    /\ ChatInit /\ ConnIdle /\ ProxyIdle /\ ToolRunIdle /\ ErrorIdle /\ HistoryIdle
    /\ TextIdle
    /\ classified \in [msg : MessageShapes, endpoint : Endpoints,
                        out : {NotClassified}]

NextClassifier == ClassifyMessage

SpecClassifier == InitClassifier /\ [][NextClassifier]_vars

\* Calls of the tool functions, one per input
InitTools ==
    /\ ChatInit /\ ConnIdle /\ ProxyIdle /\ ClassifierIdle /\ ErrorIdle /\ HistoryIdle
    /\ TextIdle
    /\ tool_run \in [pc : {"idle"}, input : ToolRunInputs,
                     execution : {NotRun}, approval : {NotRun}]

NextTools == RunTool

SpecTools == InitTools /\ [][NextTools]_vars

\* Calls of the error classifier, one per exception
InitErrors ==
    /\ ChatInit /\ ConnIdle /\ ProxyIdle /\ ClassifierIdle /\ ToolRunIdle /\ HistoryIdle
    /\ TextIdle
    /\ error_seen \in [pc : {"idle"}, error : ErrorShapes, rows : {<<>>}]

NextErrors == ClassifyError

SpecErrors == InitErrors /\ [][NextErrors]_vars

\* Rows stored over time and histories loaded
NextHistory ==
    \/ Tick
    \/ StoreMessage
    \/ LoadHistory

SpecHistory == Init /\ [][NextHistory]_vars

\* Tool calls stored by the classifier and read back for approval
InitEncoding ==
    /\ ChatInit /\ ConnIdle /\ ProxyIdle /\ ClassifierIdle /\ ToolRunIdle
    /\ ErrorIdle /\ HistoryIdle
    /\ text_call \in [pc : {"proposed"}, name : ToolNames,
                      arguments : ArgumentObjects, msg_content : {<<>>},
                      parsed : {parse_tool_call(<<>>)}]

NextEncoding ==
    \/ StoreToolCall
    \/ ParseToolCall

SpecEncoding == InitEncoding /\ [][NextEncoding]_vars

\* Sessions named after their first message
InitNames ==
    /\ ChatInit /\ ConnIdle /\ ProxyIdle /\ ClassifierIdle /\ ToolRunIdle
    /\ ErrorIdle /\ HistoryIdle
    /\ text_call \in [pc : {"received"}, messageContent : FirstMessages,
                      cht_name : {Text(0, 0, 0)}]

NextNames == NameSession

SpecNames == InitNames /\ [][NextNames]_vars

\* ============================================================ properties
Kinds(op) == {op.effects[i].kind : i \in 1..Len(op.effects)}

\* The rows the last call inserted that are still stored, in program order
Inserted(op) ==
    LET ins == SelectSeq(op.effects,
                   LAMBDA e : e.kind = "insert" /\ HasMessage(db, op.sess, e.id))
    IN  [i \in 1..Len(ins) |-> MessageAt(db, ins[i].id)]

IsSubmitOrEdit(op) == op.op \in {"create_session", "create_message", "edit"}

IsResolve(op) == op.op = "resolve" /\ op.status # "404"

IsAudit(r) == r.msg_role = "system" /\ r.msg_content[1] = "[APPROVAL DECISION] "

\* C1: a tool reaches the tool server only under an approve or modify
\* decision submitted for the tool_input that proposed it; a submit or an
\* edit stops at the proposal: it runs no tool, connects to no tool server
\* and writes no tool_response.
C1_NoToolRunWithoutDecision ==
    /\ \A i \in 1..Len(toolCalls) :
          /\ toolCalls[i].action \in {"approve", "modify"}
          /\ \E j \in 1..Len(resolved) :
                /\ resolved[j].input = toolCalls[i].input
                /\ resolved[j].action = toolCalls[i].action
    /\ "exec" \in Kinds(lastOp) =>
          /\ IsResolve(lastOp)
          /\ lastOp.action \in {"approve", "modify"}
    /\ IsSubmitOrEdit(lastOp) =>
          /\ Kinds(lastOp) \cap {"exec", "connect"} = {}
          /\ \A i \in 1..Len(Inserted(lastOp)) :
                Inserted(lastOp)[i].msg_role # "tool_response"

\* C1 witness: a proposal returned by a submit has been approved and the
\* tool has run
C1_Witness ==
    /\ IsResolve(lastOp)
    /\ lastOp.action = "approve"
    /\ "exec" \in Kinds(lastOp)
    /\ Len(toolCalls) = 1
    /\ toolCalls[1].input = lastOp.msg
    /\ toolCalls[1].parameters = ProposedArgs

\* C2: in every session every tool_response is immediately preceded by a
\* tool_input of the same session.
C2_ToolResponseFollowsToolInput ==
    \A s \in SessionIds :
        LET ms == SessionMessages(db, s)
        IN  \A i \in 1..Len(ms) :
                ms[i].msg_role = "tool_response" =>
                    i > 1 /\ ms[i - 1].msg_role = "tool_input"

\* C3: a resolve request for a tool_input that already has a resolution
\* fails with an invalid-state status and changes nothing: no row is
\* written or rewritten and no tool runs.
C3_SecondResolutionRefused ==
    [][(/\ calls' = calls + 1
        /\ IsResolve(lastOp')
        /\ \E i \in 1..Len(resolved) : resolved[i].input = lastOp'.msg)
       => (/\ lastOp'.status = "409"
           /\ db' = db
           /\ toolCalls' = toolCalls
           /\ lastOp'.effects = <<>>)]_vars

\* C4: for every tool_input at most one tool_response is written and the
\* tool runs at most once.
C4_AtMostOneResolution ==
    \A m \in 1..(nextId - 1) :
        /\ Cardinality({j \in 1..Len(resolved) : resolved[j].input = m}) <= 1
        /\ Cardinality({j \in 1..Len(toolCalls) : toolCalls[j].input = m}) <= 1

\* C5: a reject neither connects to the tool server nor runs the tool, and
\* the tool_response it writes contains the rejection reason supplied.
C5_RejectNeverRunsTool ==
    /\ \A i \in 1..Len(toolCalls) : toolCalls[i].action # "reject"
    /\ (IsResolve(lastOp) /\ lastOp.action = "reject") =>
          /\ Kinds(lastOp) \cap {"connect", "exec"} = {}
          /\ Len(lastOp.effects) > 0
          /\ Last(lastOp.effects).kind = "insert"
          /\ LET r == MessageAt(db, Last(lastOp.effects).id)
             IN  /\ r.msg_role = "tool_response"
                 /\ r.msg_cht_id = lastOp.sess
                 /\ lastOp.arg # "" => lastOp.arg \in Range(r.msg_content)

\* C5 witness: a reject with a reason has written its tool_response
C5_Witness ==
    /\ IsResolve(lastOp)
    /\ lastOp.action = "reject"
    /\ lastOp.arg = "not needed"
    /\ Last(db).msg_role = "tool_response"
    /\ toolCalls = <<>>

\* The approve scenario: one submit whose model call proposes a tool call,
\* then one approve; the tool returns its result and the model answers in
\* text
ApproveScenario ==
    /\ calls = 2
    /\ IsResolve(lastOp)
    /\ lastOp.action = "approve"
    /\ lastOp.status = "ok"
    /\ Len(toolCalls) = 1
    /\ \E i \in 1..Len(db) : /\ db[i].msg_role = "tool_response"
                             /\ db[i].msg_content = <<ToolOutput>>
    /\ Last(db).msg_role = "assistant"
    /\ Last(db).msg_content = <<AnswerText>>

\* C6: after the approve scenario the session holds exactly the roles
\* user, tool_input, tool_response, assistant, in that order, the answer
\* last.
C6_ApproveScenarioRoles ==
    ApproveScenario =>
        /\ RolesOf(SessionMessages(db, lastOp.sess))
              = <<"user", "tool_input", "tool_response", "assistant">>
        /\ Last(SessionMessages(db, lastOp.sess)).msg_content = <<AnswerText>>

\* C7: every resolve writes exactly one audit system row, and writes it
\* before the tool runs, before the tool_input is rewritten and before the
\* tool_response and any continuation row.
C7_AuditFirst ==
    IsResolve(lastOp) =>
        /\ Len(lastOp.effects) > 0
        /\ lastOp.effects[1].kind = "insert"
        /\ HasMessage(db, lastOp.sess, lastOp.effects[1].id)
        /\ IsAudit(MessageAt(db, lastOp.effects[1].id))
        /\ \A i \in 2..Len(lastOp.effects) :
              (/\ lastOp.effects[i].kind = "insert"
               /\ HasMessage(db, lastOp.sess, lastOp.effects[i].id))
              => ~ IsAudit(MessageAt(db, lastOp.effects[i].id))
        /\ \A i \in 1..Len(lastOp.effects) :
              lastOp.effects[i].kind \in {"connect", "exec", "update", "model"}
              => i > 1

\* C7 witness: a modify that rewrote the tool_input, ran the tool and
\* persisted a continuation
C7_Witness ==
    /\ IsResolve(lastOp)
    /\ lastOp.action = "modify"
    /\ {"update", "exec", "model"} \subseteq Kinds(lastOp)
    /\ Len(Inserted(lastOp)) >= 3
    /\ IsAudit(Inserted(lastOp)[1])
    /\ Inserted(lastOp)[2].msg_role = "tool_response"

\* C8: an edit of user message M sets M's content to the new text, deletes
\* exactly the rows of M's session whose creation_dt is later than M's, and
\* leaves every other row as it was.
C8_EditFrame ==
    [][(/\ calls' = calls + 1
        /\ lastOp'.op = "edit"
        /\ lastOp'.status = "ok")
       => LET s == lastOp'.sess
              m == lastOp'.msg
              dt == MessageAt(db, m).creation_dt
          IN  \A i \in 1..Len(db) :
                IF db[i].msg_cht_id = s /\ db[i].creation_dt > dt
                THEN \A j \in 1..Len(db') : db'[j].msg_id # db[i].msg_id
                ELSE IF db[i].msg_id = m
                THEN \E j \in 1..Len(db') :
                        db'[j] = [db[i] EXCEPT !.msg_content = <<lastOp'.arg>>]
                ELSE \E j \in 1..Len(db') : db'[j] = db[i]]_vars

\* C8 witness: an edit has deleted later rows of its session while a row
\* of another session with a later creation_dt is still stored
C8_Witness ==
    /\ lastOp.op = "edit"
    /\ lastOp.status = "ok"
    /\ "delete" \in Kinds(lastOp)
    /\ HasMessage(db, lastOp.sess, lastOp.msg)
    /\ MessageAt(db, lastOp.msg).msg_content = <<EditText>>
    /\ \E i \in 1..Len(db) :
          /\ db[i].msg_cht_id # lastOp.sess
          /\ db[i].creation_dt > MessageAt(db, lastOp.msg).creation_dt

\* C9: an edit whose model re-invocation fails leaves every row the
\* session held before the edit exactly as it was.
C9_EditAllOrNothing ==
    [][(/\ calls' = calls + 1
        /\ lastOp'.op = "edit"
        /\ "raise" \in Kinds(lastOp'))
       => \A i \in 1..Len(db) :
             db[i].msg_cht_id = lastOp'.sess =>
                \E j \in 1..Len(db') : db'[j] = db[i]]_vars

\* C10: when the provider call of a model invocation fails, the exception
\* reaches the endpoint and exactly one assistant row explaining the
\* failure is written after it.
C10_ModelFailureSurfaced ==
    (/\ lastOp.op \in {"create_session", "create_message", "edit", "resolve"}
     /\ {"model", "raise"} \subseteq Kinds(lastOp))
    => \E k \in 1..Len(lastOp.effects) :
          /\ lastOp.effects[k].kind = "raise"
          /\ k = Len(lastOp.effects) - 1
          /\ lastOp.effects[k + 1].kind = "insert"
          /\ HasMessage(db, lastOp.sess, lastOp.effects[k + 1].id)
          /\ MessageAt(db, lastOp.effects[k + 1].id).msg_role = "assistant"
          /\ MessageAt(db, lastOp.effects[k + 1].id).msg_content # <<>>

\* The positions of the effects of a kind in the last call
Positions(op, kind) == {i \in 1..Len(op.effects) : op.effects[i].kind = kind}

Reported(r) ==
    /\ ~ r.raised
    /\ r.success => r.error = <<>>
    /\ ~ r.success => r.error # <<>>

\* C22: execute_mcp_tool and process_tool_call_approval return a result
\* dict on every path, never an exception; success goes with no error and
\* failure with a non-empty error text.
C22_ToolCallsNeverRaise ==
    tool_run.pc = "done" =>
        /\ Reported(tool_run.execution)
        /\ Reported(tool_run.approval)

\* C22 witness: asyncio.run raised inside execute_mcp_tool during an
\* approve, and both functions returned the failure as a result dict
C22_Witness ==
    /\ tool_run.pc = "done"
    /\ tool_run.input.tout = "setup"
    /\ tool_run.input.mcp_servers
    /\ tool_run.input.action = "approve"
    /\ ~ tool_run.execution.success
    /\ tool_run.execution.error[1] = "Error setting up tool execution: "
    /\ tool_run.approval.error = tool_run.execution.error

UserFacingTexts ==
    {<<"request too large">>, <<"too many requests">>, <<"rate limit error">>,
     <<"authentication issue">>, <<"service unavailable">>,
     <<"trouble connecting">>, <<"issue while generating">>,
     <<"unexpected error">>}

\* The internal scheduling/runtime faults, by their text
Suppressed(error) ==
    {"Event loop is closed", "RuntimeError"} \cap error.marks # {}

\* C23: every exception handed to the error classifier gives exactly one
\* assistant message of a user-facing category, unless it is an internal
\* scheduling/runtime fault; only those end with no message.
C23_EveryErrorClassified ==
    error_seen.pc = "done" =>
        /\ Len(error_seen.rows) <= 1
        /\ error_seen.rows = <<>> => Suppressed(error_seen.error)
        /\ error_seen.rows # <<>> =>
              /\ error_seen.rows[1].msg_role = "assistant"
              /\ error_seen.rows[1].msg_content \in UserFacingTexts

\* C24: an error whose text contains "Event loop is closed" or
\* "RuntimeError" gives no message, whatever else the text contains.
C24_InternalFaultSuppressed ==
    (error_seen.pc = "done" /\ Suppressed(error_seen.error)) =>
        error_seen.rows = <<>>

C28_ReadBackInAppendOrder ==
    history.rows = history.appended

\* The last call ran a model turn that failed: configure_llm raised, or
\* the provider call did
ModelFailed(op) ==
    /\ "raise" \in Kinds(op)
    /\ \/ IsSubmitOrEdit(op)
       \/ IsResolve(op) /\ "model" \in Kinds(op)

\* C25: when the model invocation of a call fails, the only row written
\* after the failure is the error classifier's assistant message, never an
\* assistant answer or a tool_input of the model; the rows written earlier
\* in the call are stored, and every row the call had not updated or
\* deleted before the invocation is left as it was.
C25_FailedTurnPersistsNothing ==
    [][(calls' = calls + 1 /\ ModelFailed(lastOp'))
       => LET op == lastOp'
              k == CHOOSE n \in Positions(op, "raise") : TRUE
              touched == {op.effects[n].id :
                             n \in {x \in 1..Len(op.effects) :
                                      op.effects[x].kind \in {"update", "delete"}}}
          IN  /\ \A n \in Positions(op, "insert") :
                    IF n > k
                    THEN /\ MessageAt(db', op.effects[n].id).msg_role = "assistant"
                         /\ MessageAt(db', op.effects[n].id).msg_content
                               \in UserFacingTexts
                    ELSE HasMessage(db', op.sess, op.effects[n].id)
              /\ \A i \in 1..Len(db) :
                    db[i].msg_id \notin touched
                       => \E j \in 1..Len(db') : db'[j] = db[i]]_vars

\* C25 witness: a message submitted to a session that already holds rows
\* has reached the provider, the call has failed, and the user row is the
\* only row of the call
C25_Witness ==
    /\ lastOp.op = "create_message"
    /\ {"model", "raise"} \subseteq Kinds(lastOp)
    /\ Len(Inserted(lastOp)) = 1
    /\ Last(db).msg_id = lastOp.msg
    /\ Last(db).msg_role = "user"
    /\ Len(SessionMessages(db, lastOp.sess)) >= 3

\* C29: a call on one session leaves the rows of every other session as
\* they were: none is added, changed or removed.
C29_SessionsIndependent ==
    [][calls' = calls + 1
       => \A t \in SessionIds \ {lastOp'.sess} :
             SessionMessages(db', t) = SessionMessages(db, t)]_vars

\* C29 witness: one session has been deleted with its rows while the
\* other session still holds its own
C29_Witness ==
    /\ lastOp.op = "delete_session"
    /\ Len(lastOp.effects) >= 2
    /\ SessionMessages(db, lastOp.sess) = <<>>
    /\ \E t \in SessionIds \ {lastOp.sess} : Len(SessionMessages(db, t)) >= 2

\* C30: one submit, edit or resolve call invokes the model at most once
\* and runs at most one tool; a tool run is added to the history of tool
\* runs only by a resolve call, one per call.
C30_OneModelCallOneToolRun ==
    [][calls' = calls + 1
       => /\ Cardinality(Positions(lastOp', "model")) <= 1
          /\ Cardinality(Positions(lastOp', "exec")) <= 1
          /\ Len(toolCalls') <= Len(toolCalls) + 1
          /\ Len(toolCalls') > Len(toolCalls) => IsResolve(lastOp')]_vars

\* C30 witness: a resolve has run its tool, called the model once, and
\* the model has proposed the next tool call, which waits as a tool_input
C30_Witness ==
    /\ IsResolve(lastOp)
    /\ Cardinality(Positions(lastOp, "exec")) = 1
    /\ Cardinality(Positions(lastOp, "model")) = 1
    /\ Len(toolCalls) = 1
    /\ Len(Inserted(lastOp)) >= 3
    /\ Last(Inserted(lastOp)).msg_role = "tool_input"
    /\ Last(Inserted(lastOp)).msg_id # lastOp.msg

\* C11: a probe of a tool server that refuses the first two connections
\* and accepts the third ends in success, after waiting at least
\* 0.5 s + 1.0 s between the attempts.
C11_RetryUntilThirdAttempt ==
    \A p \in Procs :
        (/\ procs[p].kind = "probe"
         /\ procs[p].pc = "done"
         /\ procs[p].refusals = 2)
        => /\ procs[p].result = "success"
           /\ procs[p].tried = 3
           /\ procs[p].waited >= BASE_DELAY + 2 * BASE_DELAY

\* C12: at most 2 connections to tool servers are being made at any
\* moment, over all probes and all tool discoveries.
C12_AtMostTwoConnections ==
    Cardinality(ConnectionsInProgress) <= CONNECTION_SEMAPHORE

\* C13: a tool discovery over 3 servers of which exactly 1 cannot be
\* reached offers the tools of the other 2 and goes on to the model call.
C13_PartialDiscoveryProceeds ==
    \A p \in Procs :
        (/\ procs[p].kind = "discover"
         /\ procs[p].pc = "done"
         /\ Cardinality(procs[p].servers) = 3
         /\ Cardinality(procs[p].unreachable) = 1)
        => /\ procs[p].offered = procs[p].servers \ procs[p].unreachable
           /\ procs[p].invoked

\* A tool_input of the session that no resolution has answered yet
PendingApproval(rows, s) ==
    \E i \in 1..Len(rows) :
        /\ rows[i].msg_cht_id = s
        /\ rows[i].msg_role = "tool_input"
        /\ \A j \in 1..Len(resolved) : resolved[j].input # rows[i].msg_id

\* C14: a user message submitted to a session that has a tool_input
\* awaiting approval starts no model invocation.
C14_NoTurnWhilePending ==
    [][(/\ calls' = calls + 1
        /\ lastOp'.op = "create_message"
        /\ PendingApproval(db, lastOp'.sess))
       => "model" \notin Kinds(lastOp')]_vars

\* C15: when a model call with proxy_required has finished, by return or
\* by exception, and no other call has run, every proxy variable has the
\* value or absence it had before the call.
C15_ProxyRestored ==
    \A c \in LlmCalls :
        (/\ llm_calls[c].pc = "done"
         /\ llm_calls[c].proxy_required
         /\ \A o \in LlmCalls \ {c} : llm_calls[o].pc = "idle")
        => environ = llm_calls[c].before

\* The environment a call ran under: when its model object was built and
\* when the provider was called
RanUnder(c) ==
    {llm_calls[c].built, llm_calls[c].invoked} \ {NoEnviron}

\* C16: of two overlapping model calls, one with and one without proxy,
\* the call without proxy runs with the proxy variables as they were when
\* it started, and the call with proxy is built with the proxy variables
\* of the settings.
C16_NoProxyInterference ==
    \A c \in LlmCalls : \A o \in LlmCalls \ {c} :
        (/\ llm_calls[c].pc # "idle"
         /\ llm_calls[o].pc # "idle"
         /\ ~ llm_calls[c].proxy_required
         /\ llm_calls[o].proxy_required)
        => /\ \A e \in RanUnder(c) : e = llm_calls[c].before
           /\ llm_calls[o].built # NoEnviron
                => llm_calls[o].built = update_proxy_config(llm_calls[o].before)

\* C17: every resolution appends its tool_response and invokes the model
\* again in the same request, which ends with an assistant answer or a
\* further tool_input as the last row of the session.
C17_ResolutionReinvokesModel ==
    (IsResolve(lastOp) /\ lastOp.status = "ok") =>
        /\ "model" \in Kinds(lastOp)
        /\ \E i \in 1..Len(Inserted(lastOp)) :
              Inserted(lastOp)[i].msg_role = "tool_response"
        /\ Last(SessionMessages(db, lastOp.sess)).msg_role
              \in {"assistant", "tool_input"}

HasText(msg) ==
    IF msg.blocks THEN \E i \in 1..Len(msg.content) : msg.content[i].type = "text"
    ELSE msg.content # <<>>

HasToolDirective(msg) ==
    \/ msg.tool_calls # <<>>
    \/ msg.blocks /\ \E i \in 1..Len(msg.content) : msg.content[i].type = "tool_use"

\* The tool a directive names and its serialized arguments
DirectiveOf(msg) ==
    IF msg.tool_calls # <<>> THEN msg.tool_calls[1]
    ELSE LET b == msg.content[CHOOSE i \in 1..Len(msg.content) :
                                  msg.content[i].type = "tool_use"]
         IN  CallOf(b.name, json_dumps(b.input))

\* C18: a model turn with text and no tool directive is an assistant
\* message holding the text; one with a tool directive and no text is a
\* tool_input holding the tool name and its serialized arguments; one with
\* both is an assistant message holding the text alone.
C18_RoleClassification ==
    LET msg == classified.msg
        out == classified.out
    IN  (out # NotClassified /\ msg.type = "AIMessage") =>
            /\ (HasText(msg) /\ ~ HasToolDirective(msg)) =>
                  out = [role |-> "assistant", content |-> <<AnswerText>>]
            /\ (HasToolDirective(msg) /\ ~ HasText(msg)) =>
                  out = [role |-> "tool_input",
                         content |-> ToolInputContent(DirectiveOf(msg).name,
                                         DirectiveOf(msg).arguments)]
            /\ (HasText(msg) /\ HasToolDirective(msg)) =>
                  out = [role |-> "assistant", content |-> <<AnswerText>>]

C20_ModifyUsesSuppliedArguments ==
    [][(/\ calls' = calls + 1
        /\ IsResolve(lastOp')
        /\ lastOp'.action = "modify"
        /\ lastOp'.status = "ok"
        /\ lastOp'.arg # None)
       => /\ MessageAt(db', lastOp'.msg).msg_content
                = ToolInputContent(MessageAt(db, lastOp'.msg).msg_content[2],
                                   json_dumps(lastOp'.arg))
          /\ "exec" \in Kinds(lastOp') =>
                Last(toolCalls').parameters = lastOp'.arg]_vars

\* C34: a resolve request whose message id is not a tool_input row of the
\* session named in the request (no row of that id, a row of another
\* session, a row of another role) is answered not-found and has no effect:
\* no row is written or changed, no tool runs, no model call is made.
C34_ResolveOfOtherMessageNotFound ==
    [][(/\ calls' = calls + 1
        /\ lastOp'.op = "resolve"
        /\ ~ \E i \in 1..Len(db) : /\ db[i].msg_id = lastOp'.msg
                                   /\ db[i].msg_cht_id = lastOp'.sess
                                   /\ db[i].msg_role = "tool_input")
       => (/\ lastOp'.status = "404"
           /\ lastOp'.effects = <<>>
           /\ db' = db
           /\ nextId' = nextId
           /\ toolCalls' = toolCalls
           /\ resolved' = resolved)]_vars

\* C34 witness: a resolve sent to one session with the id of a tool_input
\* of the other session has been answered not-found
C34_Witness ==
    /\ lastOp.op = "resolve"
    /\ lastOp.status = "404"
    /\ \E i \in 1..Len(db) : /\ db[i].msg_id = lastOp.msg
                             /\ db[i].msg_cht_id # lastOp.sess
                             /\ db[i].msg_role = "tool_input"
    /\ toolCalls = <<>>
    /\ resolved = <<>>

\* C35: an edit of a message whose role is not user is rejected with an
\* error and leaves everything as it was: the message keeps content and
\* role, no row is deleted or written, no model call is made.
C35_EditOfNonUserRejected ==
    [][(/\ calls' = calls + 1
        /\ lastOp'.op = "edit"
        /\ \E i \in 1..Len(db) : /\ db[i].msg_id = lastOp'.msg
                                 /\ db[i].msg_cht_id = lastOp'.sess
                                 /\ db[i].msg_role # "user")
       => (/\ lastOp'.status = "400"
           /\ lastOp'.effects = <<>>
           /\ db' = db
           /\ nextId' = nextId
           /\ toolCalls' = toolCalls)]_vars

\* C35 witness: an edit of an assistant message that has later rows in its
\* session has been rejected, and the later rows are still stored
C35_Witness ==
    /\ lastOp.op = "edit"
    /\ lastOp.status = "400"
    /\ HasMessage(db, lastOp.sess, lastOp.msg)
    /\ MessageAt(db, lastOp.msg).msg_role = "assistant"
    /\ MessageAt(db, lastOp.msg).msg_content = <<AnswerText>>
    /\ \E i \in 1..Len(db) :
          /\ db[i].msg_cht_id = lastOp.sess
          /\ db[i].creation_dt > MessageAt(db, lastOp.msg).creation_dt


\* The ToolMessages of a message list that carry the text
ToolMessagesWith(messages, text) ==
    {i \in 1..Len(messages) : /\ messages[i].type = "ToolMessage"
                              /\ messages[i].content = text}

\* C32: when an approve or modify has run the tool and continues, the
\* message list handed to the model holds the result of that run exactly
\* once: one ToolMessage with the result besides those of the tool_response
\* rows the session held before the call.
C32_ToolResultOnceInHistory ==
    [][(/\ calls' = calls + 1
        /\ IsResolve(lastOp')
        /\ {"exec", "model"} \subseteq Kinds(lastOp'))
       => LET result == MessageAt(db', Last(resolved').response).msg_content
              before == langchain_messages(db, lastOp'.sess)
          IN  Cardinality(ToolMessagesWith(lastOp'.handed, result))
                 = Cardinality(ToolMessagesWith(before, result)) + 1]_vars


\* C31: every resolve that stored an audit row has also stored exactly one
\* tool_response row by the time it returns, whatever happened after the
\* audit row was written.
C31_AuditComesWithToolResponse ==
    (/\ lastOp.op = "resolve"
     /\ \E i \in 1..Len(Inserted(lastOp)) : IsAudit(Inserted(lastOp)[i]))
    => Cardinality({i \in 1..Len(Inserted(lastOp)) :
                       Inserted(lastOp)[i].msg_role = "tool_response"}) = 1


\* C33: for every tool name and argument object, reading back the content
\* the classifier stored gives that tool name and those arguments, also
\* when the name or an argument value contains ", Arguments: " or "Tool: ".
C33_ToolCallRoundTrip ==
    text_call.pc = "parsed" =>
        /\ text_call.parsed.ok
        /\ text_call.parsed.tool_name = text_call.name
        /\ text_call.parsed.tool_parameters = text_call.arguments

\* C36: the name given to a new session is at most 240 characters long,
\* whatever the first message is.
C36_SessionNameWithinLimit ==
    text_call.pc = "named" => TextLen(text_call.cht_name) <= 240


\* C37: the semaphore slot is released on every exit path of the retry
\* function, so when more than two callers probe at once every caller that
\* waits for a slot obtains one in the end.
C37_QueuedCallerObtainsSlot ==
    \A p \in Procs : (procs[p].pc = "acquire") ~> HasHeldSlot(p)

====
